---- MODULE Spec2Model ----
(***************************************************************************)
(* Verification model of squid-typeorm-store: the chain transaction        *)
(* manager (TypeormDatabase), the change trackers, the commit-order        *)
(* resolvers, the dependency-ordered commit of StateManager / Store, the   *)
(* entity cache and the defer queue.                                       *)
(*                                                                         *)
(* The module holds several specifications over disjoint groups of         *)
(* variables; a specification leaves the other groups unchanged.           *)
(*   SpecDb      : one processor calling transact / transactHot against    *)
(*                 the persisted status row and hot_block table.           *)
(*   SpecRace    : two processors calling transact at the same time,       *)
(*                 under each isolation level.                             *)
(*   SpecTracker : a change tracker under sequences of insert / upsert /   *)
(*                 delete calls.                                           *)
(*   SpecOrder   : the commit-order resolvers applied to declared schemas. *)
(*   SpecSync    : entities saved and removed through a store, then the    *)
(*                 pending changes handed to the database writer.          *)
(*   SpecCache   : entities written through a store and read back from     *)
(*                 its cache with a relation mask.                         *)
(*   SpecAdd     : CacheMap.add applied to cache states, once and again.   *)
(*   SpecMutex   : callers of sync() around the Mutex of one store.        *)
(*   SpecMutexLive : the same callers, each resumed and released in the    *)
(*                 end, and release() on a free Mutex.                     *)
(*   SpecManager : the methods of one StateManager, called in any order,   *)
(*                 also while performUpdate awaits its writer callback.    *)
(*   SpecDefer   : ids deferred on a store and then loaded in batches.     *)
(*   SpecSubmit  : submit() around a transaction body that commits or      *)
(*                 fails with any error code.                              *)
(*   SpecClose   : the Store of one performUpdates, used during and after  *)
(*                 the writer callback.                                    *)
(***************************************************************************)
EXTENDS Integers, Sequences, FiniteSets, TLC

VARIABLES
    \* ---- chain transaction manager (database.ts) ----
    isolation,   \* isolation level of con.transaction()
    dbImpl,      \* which performUpdates is in use
    nprocs,      \* number of processes that issue calls
    status,      \* committed status row {height, hash, nonce}
    hotBlocks,   \* committed hot_block rows
    dbRows,      \* committed entity rows (ids present)
    pc,          \* per process: position inside submit/transact
    call,        \* per process: the FinalTxInfo / HotTxInfo of the call
    retries,     \* per process: submit()'s retries counter
    state,       \* per process: the DatabaseState read by getState
    tx,          \* per process: uncommitted effects of the open transaction
    loop,        \* per process: loop index i of the running for-loop
    tracker,     \* per process: pending change records of the Store
    store,       \* per process: the Store of the running performUpdates
    hist,        \* per process: what the current attempt did (history)
    result,      \* per process: outcome of the last finished call
    calls,       \* number of calls issued so far
    \* ---- one change tracker under a sequence of calls ----
    tkImpl,      \* the tracker class in use
    tkMap,       \* identity -> pending change record
    tkLast,      \* the last call: operation, identity, record before, outcome
    tkLen,       \* number of calls made
    \* ---- commit-order resolvers ----
    ordSchema,   \* entity type -> its relations, in declaration order
    ordEntities, \* connection.entityMetadatas: the enumeration order
    ordAlgo,     \* the resolver that ran
    ordResult,   \* the commit order it returned
    \* ---- dependency-ordered commit (StateManager / StoreWithCache) ----
    syImpl,      \* the store in use
    sySchema,    \* entity type -> its relations
    syEntities,  \* connection.entityMetadatas
    syMaps,      \* entity types that own a map of change records
    syChanges,   \* the change records, in the order the maps iterate them
    syCache,     \* identity -> the cached entity (its relation values)
    syCalls,     \* number of store calls made
    syPhase,     \* "open", or "written" once the change sets were handed over
    syBatch,     \* the change records the last hand-over started from
    syWrites,    \* the writes handed to the database writer, in order
    syDb,        \* the entity rows in the database (inside the transaction)
    syQuery,     \* the last round trip of the store to the database
    \* ---- cache reads with a relation mask ----
    caImpl,      \* which cache and read are in use
    caCache,     \* identity -> cache entry
    caPending,   \* identity -> pending change record
    caLog,       \* the calls made so far, with their outcomes
    caResult,    \* what the last get read from the cache
    caPhase,     \* "open", or "db" once a read went to the database
    \* ---- deferred ids of one entity type (StoreWithCache.defer / load) ----
    dfBatchSize, \* maxBatchSize handed to splitIntoBatches
    dfRows,      \* ids of the rows the database holds
    dfIds,       \* deferData.ids, in insertion order
    dfCache,     \* id -> "absent", "null" (empty entry) or "value"
    dfLast,      \* the last load: its ids, the queries it issued, how it ended
    dfLoads,     \* number of loads made
    \* ---- submit(tx) around a transaction body of any outcome ----
    sbConnected, \* this.con != null
    sbPc,        \* "idle", "try", "returned" or "thrown"
    sbRetries,   \* submit()'s retries counter
    sbLog,       \* the outcome of each attempt of the running call
    sbThrown,    \* the error submit threw to its caller
    sbPast,      \* how the earlier calls ended
    \* ---- the Store of one performUpdates ----
    clImpl,      \* which performUpdates created the Store
    clPhase,     \* "callback", "flushing" (cb returned, flush / sync runs), "done"
    clClosed,    \* store.isClosed, or !running
    clPending,   \* identities the change tracker and cache of the Store hold
    clQueries,   \* number of queries the Store sent to the database
    clLast,      \* the last operation on the Store and what became of it
    clOps,        \* number of operations attempted
    \* ---- CacheMap.add applied to cache states ----
    adImpl,      \* the CacheMap in use
    adCache,     \* identity -> cache entry (relations)
    adColumns,   \* identity -> value of the column of the cached entity
    adLast,      \* the arguments of the last add, if the last call was an add
    adBefore,    \* cache and columns before the last add
    adOnce,      \* cache and columns after the entity was added once
    adRepeated,  \* the last add repeated the add before it
    adCalls,      \* number of calls made
    \* ---- callers of sync() around one Mutex ----
    mxQueue,     \* Mutex.waitQueue: the futures, oldest first
    mxResolved,  \* the futures that were resolved
    mxPc,        \* per caller: "idle", "acquiring", "cb", "leaving"
    mxWait,      \* per caller: the future acquire() made it await (0: none)
    mxPending,   \* the pending changes of the state manager
    mxDelivered, \* change -> number of times handed to the writer
    mxFailed,    \* changes handed to a writer call that threw
    mxFutures,   \* number of futures created
    mxWrites,    \* number of changes written to the store
    mxStray,     \* number of release() calls on a mutex nobody holds
    \* ---- one StateManager ----
    mgState,     \* StateManager.stateMap: identity -> pending change record
    mgMaps,      \* the entity types that have a Map in stateMap
    mgCache,     \* StateManager.cacheMap: identity -> cache entry
    mgAwait,     \* the change records handed to a cb that has not settled
    mgDeleted,   \* identities deleted and not saved or reset since
    mgLast,      \* the last call on the state manager
    mgCalls      \* number of calls made

dbVars == <<isolation, dbImpl, nprocs, status, hotBlocks, dbRows, pc, call, retries,
            state, tx, loop, tracker, store, hist, result, calls>>

trackerVars == <<tkImpl, tkMap, tkLast, tkLen>>

orderVars == <<ordSchema, ordEntities, ordAlgo, ordResult>>

syncVars == <<syImpl, sySchema, syEntities, syMaps, syChanges, syCache, syCalls,
              syPhase, syBatch, syWrites, syDb, syQuery>>

cacheVars == <<caImpl, caCache, caPending, caLog, caResult, caPhase>>

deferVars == <<dfBatchSize, dfRows, dfIds, dfCache, dfLast, dfLoads>>

submitVars == <<sbConnected, sbPc, sbRetries, sbLog, sbThrown, sbPast>>

closeVars == <<clImpl, clPhase, clClosed, clPending, clQueries, clLast, clOps>>

addVars == <<adImpl, adCache, adColumns, adLast, adBefore, adOnce, adRepeated, adCalls>>

mutexVars == <<mxQueue, mxResolved, mxPc, mxWait, mxPending, mxDelivered, mxFailed,
               mxFutures, mxWrites, mxStray>>

managerVars == <<mgState, mgMaps, mgCache, mgAwait, mgDeleted, mgLast, mgCalls>>

vars == <<dbVars, trackerVars, orderVars, syncVars, cacheVars, deferVars, submitVars,
          closeVars, addVars, mutexVars, managerVars>>

notDb == <<trackerVars, orderVars, syncVars, cacheVars, deferVars, submitVars, closeVars,
          addVars, mutexVars, managerVars>>
notTracker == <<dbVars, orderVars, syncVars, cacheVars, deferVars, submitVars, closeVars,
          addVars, mutexVars, managerVars>>
notOrder == <<dbVars, trackerVars, syncVars, cacheVars, deferVars, submitVars, closeVars,
          addVars, mutexVars, managerVars>>
notSync == <<dbVars, trackerVars, orderVars, cacheVars, deferVars, submitVars, closeVars,
          addVars, mutexVars, managerVars>>
notCache == <<dbVars, trackerVars, orderVars, syncVars, deferVars, submitVars, closeVars,
          addVars, mutexVars, managerVars>>
notDefer == <<dbVars, trackerVars, orderVars, syncVars, cacheVars, submitVars, closeVars,
          addVars, mutexVars, managerVars>>
notSubmit == <<dbVars, trackerVars, orderVars, syncVars, cacheVars, deferVars, closeVars,
          addVars, mutexVars, managerVars>>
notClose == <<dbVars, trackerVars, orderVars, syncVars, cacheVars, deferVars, submitVars,
          addVars, mutexVars, managerVars>>
notAdd == <<dbVars, trackerVars, orderVars, syncVars, cacheVars,
           deferVars, submitVars, closeVars, mutexVars, managerVars>>
notMutex == <<dbVars, trackerVars, orderVars, syncVars, cacheVars,
           deferVars, submitVars, closeVars, addVars, managerVars>>
notManager == <<dbVars, trackerVars, orderVars, syncVars, cacheVars,
           deferVars, submitVars, closeVars, addVars, mutexVars>>

----------------------------------------------------------------------------
(* Bounds of the model *)

MaxHeight == 2
MaxNewBlocks == 2
MaxCalls == 2
MaxWriterOps == 2
MaxTrackerCalls == 4
MaxRelations == 4
MaxStoreCalls == 2
MaxSyncRelations == 1
MaxCacheCalls == 3
MaxDeferred == 3
MaxBatchSize == 2
MaxLoads == 2
MaxSubmits == 2
MaxStoreOps == 3
MaxAdds == 2
MaxCallers == 3
MaxAcquires == 4
MaxChanges == 2
MaxStray == 1
MaxManagerCalls == 4

(* Program constants *)

InitialHeight == -1
SubmitRetries == 3

Procs == {1, 2}
Hashes == {"a", "b"}
InitialHash == "0x"
Ids == {"x"}

Heights == 0 .. MaxHeight

Block(h, hash) == [height |-> h, hash |-> hash]

Blocks == {Block(h, x) : h \in Heights, x \in Hashes}

Heads == Blocks \cup {Block(InitialHeight, InitialHash)}

RACE_MSG == "race"

----------------------------------------------------------------------------
(* Sequence helpers *)

Range(s) == {s[i] : i \in DOMAIN s}

SeqsUpTo(S, n) == UNION {[1 .. k -> S] : k \in 0 .. n}

RECURSIVE SortByHeight(_)
SortByHeight(rows) ==
    IF rows = {} THEN <<>>
    ELSE LET m == CHOOSE r \in rows : \A q \in rows : r.height <= q.height
         IN  <<m>> \o SortByHeight(rows \ {m})

----------------------------------------------------------------------------
(* Change trackers: the pending change record of one identity.             *)
(* "none" is the absence of a record; "throw" is the thrown Error.         *)
(* UpdateType.Remove / ChangeType.Remove is written "Delete".              *)

ChangeTypes == {"Insert", "Upsert", "Delete"}
RecordStates == ChangeTypes \cup {"none"}

(* StateManager.insert / upsert / delete *)
SM_insert(prevType) ==
    CASE prevType = "none" -> "Insert"
      [] prevType \in {"Insert", "Upsert"} -> "throw"
      [] prevType = "Delete" -> "Upsert"

SM_upsert(prevType) ==
    CASE prevType \in {"none", "Upsert"} -> "Upsert"
      [] prevType = "Insert" -> "Insert"
      [] prevType = "Delete" -> "Upsert"

SM_delete(prevType) ==
    CASE prevType \in {"none", "Upsert", "Insert"} -> "Delete"
      [] prevType = "Delete" -> "Delete"

(* ChangeMap.insert / upsert / remove *)
ChangeMap_insert(prevType) ==
    CASE prevType = "none" -> "Insert"
      [] prevType = "Delete" -> "Upsert"
      [] prevType \in {"Insert", "Upsert"} -> "throw"

ChangeMap_upsert(prevType) ==
    CASE prevType = "Insert" -> "Insert"
      [] prevType = "Upsert" -> "Upsert"
      [] OTHER -> "Upsert"

ChangeMap_remove(prevType) ==
    CASE prevType = "Insert" -> "none"
      [] prevType = "Delete" -> "Delete"
      [] OTHER -> "Delete"

(* UpdateMap.insert / upsert / remove, first version *)
UpdateMap_insert(prevType) ==
    IF prevType = "Insert" \/ prevType = "Upsert" THEN "throw" ELSE "Insert"

UpdateMap_upsert(prevType) == "Upsert"

UpdateMap_remove(prevType) ==
    IF prevType = "Insert" THEN "none" ELSE "Delete"

(* UpdatesTracker.insert / upsert / remove, second version, and the
   UpdateMap keyed by metadata: the switch of insert names UpdateType.Insert
   twice, so a record of Upsert matches no case and the call returns *)
UpdatesTracker_insert(prevType) ==
    CASE prevType = "none" -> "Insert"
      [] prevType = "Delete" -> "Upsert"
      [] prevType = "Insert" -> "throw"
      [] OTHER -> prevType

UpdatesTracker_upsert(prevType) ==
    CASE prevType = "Insert" -> "Insert"
      [] OTHER -> "Upsert"

UpdatesTracker_remove(prevType) ==
    CASE prevType = "Insert" -> "none"
      [] OTHER -> "Delete"

----------------------------------------------------------------------------
(* The chain transaction manager *)

NoStatus == [height |-> -9, hash |-> "none", nonce |-> -1]
NoState == [height |-> -9, hash |-> "none", nonce |-> -1, top |-> <<>>]
NoCall == [kind |-> "none"]

FinalTxInfos ==
    [kind : {"transact"}, prevHead : Heads, nextHead : Blocks]

HotTxInfos ==
    [kind : {"transactHot"}, baseHead : Heads,
     newBlocks : SeqsUpTo(Blocks, MaxNewBlocks), finalizedHead : Heads]

NoTx == [status |-> NoStatus, del |-> {}, ins |-> {}, rows |-> [i \in Ids |-> "same"],
         staleStatus |-> FALSE, staleHot |-> {}, staleRows |-> {}]

NoHist == [rollbacks |-> <<>>, hotInserts |-> <<>>, writerRuns |-> 0,
           slices |-> <<>>,
           statusUpdated |-> FALSE, expect |-> [i \in Ids |-> "untouched"],
           dropped |-> FALSE]

(* cb(store, sliceBeg, sliceEnd) on a Store whose change tracker, if it has
   one, is bound to the block heights in changes *)
Slice(sliceBeg, sliceEnd, changes) ==
    [beg |-> sliceBeg, end |-> sliceEnd, changes |-> changes]

NoStore == [open |-> FALSE, ops |-> 0, tracked |-> FALSE]

(* a continuity check that looks at the first block only *)
assertChainContinuity_firstOnly(base, chain) ==
    chain = <<>> \/ Head(chain).height = base.height + 1

(* assertChainContinuity(base, chain) *)
RECURSIVE assertChainContinuity(_, _)
assertChainContinuity(base, chain) ==
    IF chain = <<>> THEN TRUE
    ELSE /\ Head(chain).height = base.height + 1
         /\ assertChainContinuity(Head(chain), Tail(chain))

(* assertStateInvariants(state) *)
assertStateInvariants(s) == assertChainContinuity(s, s.top)

(* the rows of hot_block a statement of process p sees: its own deletes and
   inserts over the committed rows *)
VisibleHot(p) ==
    {b \in hotBlocks : b.height \notin tx[p].del} \cup tx[p].ins

VisibleRow(p, i) ==
    IF tx[p].rows[i] = "same" THEN (i \in dbRows) ELSE tx[p].rows[i] = "present"

(* chain = [state, ...state.top], indexed from 0 as in the source *)
Chain(s) == <<Block(s.height, s.hash)>> \o s.top

At0(seq, i) == seq[i + 1]
Defined0(seq, i) == i >= 0 /\ i < Len(seq)

(* transact without `assert(state.height === prev.height)` *)
TransactChecks_noHeight(s, info) ==
    IF s.hash # info.prevHead.hash THEN RACE_MSG
    ELSE IF ~(info.prevHead.height < info.nextHead.height) THEN "assert"
    ELSE IF ~(info.prevHead.hash # info.nextHead.hash) THEN "assert"
    ELSE "ok"

(* the checks of transact, before the rollback loop: "ok", or the failure *)
TransactChecks(s, info) ==
    IF s.hash # info.prevHead.hash THEN RACE_MSG
    ELSE IF s.height # info.prevHead.height THEN "assert"
    ELSE IF ~(info.prevHead.height < info.nextHead.height) THEN "assert"
    ELSE IF ~(info.prevHead.hash # info.nextHead.hash) THEN "assert"
    ELSE "ok"

maybeLastOr(blocks, dflt) == IF blocks = <<>> THEN dflt ELSE blocks[Len(blocks)]

(* chain.find((b) => b.hash === info.baseHead.hash) *)
ChainFind(chain, head) == \E k \in DOMAIN chain : chain[k].hash = head.hash

(* the checks of transactHot2, before the rollback loop *)
HotChecks(s, info) ==
    LET chain == Chain(s) IN
    IF ~assertChainContinuity(info.baseHead, info.newBlocks) THEN "assert"
    ELSE IF ~(info.finalizedHead.height
                <= maybeLastOr(info.newBlocks, info.baseHead).height) THEN "assert"
    ELSE IF ~ChainFind(chain, info.baseHead) THEN RACE_MSG
    ELSE IF info.newBlocks = <<>> /\ chain[Len(chain)].hash # info.baseHead.hash
         THEN RACE_MSG
    ELSE IF ~(chain[1].height <= info.finalizedHead.height) THEN RACE_MSG
    ELSE "ok"

(* a rollback loop that goes down to the first hot block *)
rollbackPos_firstHot(s, info) == 1

rollbackPos(s, info) == info.baseHead.height + 1 - s.height

(* a finalized slice that stops one block short of finalizedHead *)
finalizedEnd_short(info) ==
    LET fe == info.finalizedHead.height - info.newBlocks[1].height
    IN  IF fe > 0 THEN fe ELSE 0

finalizedEnd(info) ==
    LET fe == info.finalizedHead.height - info.newBlocks[1].height + 1
    IN  IF fe > 0 THEN fe ELSE 0

(* chain.slice(0, rollbackPos).concat(info.newBlocks); rollbackPos >= 0 here *)
NewChain(s, info) ==
    LET chain == Chain(s)
        rp == rollbackPos(s, info)
        n == IF rp > Len(chain) THEN Len(chain) ELSE rp
    IN  SubSeq(chain, 1, n) \o info.newBlocks

----------------------------------------------------------------------------
(* Steps of one process inside submit(tx) *)

Others(p) == {q \in Procs : q # p}

InTx(q) == pc[q] \notin {"idle", "start", "done"}

(* submit's catch block that retries after every error *)
shouldRetry_anyError(code, retriesLeft) == retriesLeft # 0

(* submit's catch block: e.code == '40001' && retries *)
shouldRetry(code, retriesLeft) == code = "40001" /\ retriesLeft # 0

(* submit: the transaction is rolled back; a 40001 with retries left starts
   the body again, anything else is thrown to the caller.  The kinds of
   failure: "40001" (serialization failure), RACE_MSG, "assert" (another
   assertion), "writer" (the callback threw), "db" (the database refused a
   write of the Store), "error" (any other error) *)
Fail(p, kind) ==
    /\ tx' = [tx EXCEPT ![p] = NoTx]
    /\ store' = [store EXCEPT ![p] = NoStore]
    /\ loop' = [loop EXCEPT ![p] = 0]
    /\ IF shouldRetry(kind, retries[p])
       THEN /\ retries' = [retries EXCEPT ![p] = @ - 1]
            /\ pc' = [pc EXCEPT ![p] = "start"]
            /\ result' = result
       ELSE /\ retries' = retries
            /\ pc' = [pc EXCEPT ![p] = "done"]
            /\ result' = [result EXCEPT ![p] = kind]

(* a caller invokes transact or transactHot: submit(tx) starts *)
Call(p, info) ==
    /\ pc[p] = "idle"
    /\ p <= nprocs
    /\ calls < MaxCalls
    /\ calls' = calls + 1
    /\ call' = [call EXCEPT ![p] = info]
    /\ retries' = [retries EXCEPT ![p] = SubmitRetries]
    /\ pc' = [pc EXCEPT ![p] = "start"]
    /\ result' = [result EXCEPT ![p] = "none"]
    /\ state' = [state EXCEPT ![p] = NoState]
    /\ hist' = [hist EXCEPT ![p] = NoHist]
    /\ UNCHANGED notDb
    /\ UNCHANGED <<isolation, dbImpl, nprocs, status, hotBlocks, dbRows, tx, loop,
                   tracker, store>>

(* transact(info, cb) *)
transact(p) ==
    /\ pc[p] = "idle"
    /\ \E info \in FinalTxInfos : Call(p, info)

(* transactHot(info, cb) *)
transactHot(p) ==
    /\ pc[p] = "idle"
    /\ \E info \in HotTxInfos : Call(p, info)

(* getState(em) and the checks that precede the rollback loop *)
GetState(p) ==
    /\ pc[p] = "start"
    /\ LET s == [height |-> status.height, hash |-> status.hash,
                 nonce |-> status.nonce, top |-> SortByHeight(hotBlocks)]
           info == call[p]
           checks == IF ~assertStateInvariants(s) THEN "assert"
                     ELSE IF info.kind = "transact" THEN TransactChecks(s, info)
                     ELSE HotChecks(s, info)
       IN  /\ state' = [state EXCEPT ![p] = s]
           /\ hist' = [hist EXCEPT ![p] = NoHist]
           /\ IF checks # "ok"
              THEN Fail(p, checks)
              ELSE /\ pc' = [pc EXCEPT ![p] = "rollback"]
                   /\ loop' = [loop EXCEPT ![p] =
                                  IF info.kind = "transact" THEN Len(s.top) - 1
                                  ELSE Len(Chain(s)) - 1]
                   /\ tx' = [tx EXCEPT ![p] = NoTx]
                   /\ UNCHANGED <<store, retries, result>>
    /\ UNCHANGED notDb
    /\ UNCHANGED <<isolation, dbImpl, nprocs, status, hotBlocks, dbRows, call, tracker,
                   calls>>

(* row locks: another open transaction wrote the row and has not ended *)
HotRowLocked(p, h) ==
    \E q \in Others(p) : h \in tx[q].del \/ (\E b \in tx[q].ins : b.height = h)

StatusRowLocked(p) == \E q \in Others(p) : tx[q].status # NoStatus

EntityRowLocked(p, i) == \E q \in Others(p) : tx[q].rows[i] # "same"

Snapshot == isolation # "READ COMMITTED"

(* performUpdates: new Store(...) and the call of cb(store).  TypeormDatabase
   hands every Store the StateManager of the connection; the override of
   TypeormDatabaseWithCache creates a StoreWithCache with its own UpdateMap *)
EnterWriter(p, tracked) ==
    /\ pc' = [pc EXCEPT ![p] = "writer"]
    /\ store' = [store EXCEPT ![p] = [open |-> TRUE, ops |-> 0, tracked |-> tracked]]
    /\ tracker' = IF dbImpl = "TypeormDatabase" THEN tracker
                  ELSE [tracker EXCEPT ![p] = [i \in Ids |-> "none"]]

(* rollbackBlock(statusSchema, em, height): removes the hot_block row *)
RollbackStep(p) ==
    /\ pc[p] = "rollback"
    /\ LET info == call[p]
           s == state[p]
           blocks == IF info.kind = "transact" THEN s.top ELSE Chain(s)
           lower == IF info.kind = "transact" THEN 0 ELSE rollbackPos(s, info)
           i == loop[p]
       IN  /\ i >= lower
           /\ IF ~Defined0(blocks, i)
              THEN /\ Fail(p, "error")
                   /\ UNCHANGED hist
              ELSE LET h == At0(blocks, i).height IN
                   /\ ~HotRowLocked(p, h)
                   /\ IF Snapshot /\ h \in tx[p].staleHot
                      THEN /\ Fail(p, "40001")
                           /\ UNCHANGED hist
                      ELSE /\ tx' = [tx EXCEPT ![p].del = @ \cup {h},
                                               ![p].ins = {b \in @ : b.height # h}]
                           /\ hist' = [hist EXCEPT ![p].rollbacks = Append(@, h)]
                           /\ loop' = [loop EXCEPT ![p] = i - 1]
                           /\ UNCHANGED <<pc, retries, result, store>>
    /\ UNCHANGED notDb
    /\ UNCHANGED <<isolation, dbImpl, nprocs, status, hotBlocks, dbRows, call, state,
                   tracker, calls>>

(* the rollback loop has ended: transact runs performUpdates(cb, em);
   transactHot2 runs the finalized slice, or goes to the hot-block loop *)
RollbackDone(p) ==
    /\ pc[p] = "rollback"
    /\ LET info == call[p]
           lower == IF info.kind = "transact" THEN 0 ELSE rollbackPos(state[p], info)
       IN  /\ loop[p] < lower
           /\ IF info.kind = "transact"
              THEN /\ EnterWriter(p, FALSE)
                   /\ hist' = [hist EXCEPT ![p].writerRuns = @ + 1]
                   /\ loop' = [loop EXCEPT ![p] = 0]
              ELSE IF info.newBlocks # <<>> /\ finalizedEnd(info) > 0
              THEN /\ EnterWriter(p, FALSE)
                   /\ hist' = [hist EXCEPT
                                 ![p].writerRuns = @ + 1,
                                 ![p].slices =
                                     Append(@, Slice(0, finalizedEnd(info), {}))]
                   /\ loop' = [loop EXCEPT ![p] = finalizedEnd(info)]
              ELSE /\ pc' = [pc EXCEPT ![p] =
                                IF info.newBlocks # <<>> THEN "hotloop" ELSE "finish"]
                   /\ loop' = [loop EXCEPT ![p] = 0]
                   /\ UNCHANGED <<store, tracker, hist>>
    /\ UNCHANGED notDb
    /\ UNCHANGED <<isolation, dbImpl, nprocs, status, hotBlocks, dbRows, call, retries,
                   state, tx, result, calls>>

(* the change tracker behind the Store of performUpdates: the StateManager
   of the connection, or the UpdateMap of a StoreWithCache *)
TrackerApply(op, prevType) ==
    IF dbImpl = "TypeormDatabase"
    THEN CASE op = "insert" -> SM_insert(prevType)
           [] op = "upsert" -> SM_upsert(prevType)
           [] op = "delete" -> SM_delete(prevType)
    ELSE CASE op = "insert" -> UpdateMap_insert(prevType)
           [] op = "upsert" -> UpdateMap_upsert(prevType)
           [] op = "delete" -> UpdateMap_remove(prevType)

Pending(p) == {i \in Ids : tracker[p][i] # "none"}

(* Store.sync(): every pending change is written inside the open transaction
   and the change tracker is cleared.  The outcome of the writes: *)
SyncOutcome(p) ==
    IF \E i \in Pending(p) : Snapshot /\ i \in tx[p].staleRows /\ tracker[p][i] # "Insert"
    THEN "40001"
    ELSE IF \E i \in Pending(p) : tracker[p][i] = "Insert" /\ VisibleRow(p, i)
    THEN "db"
    ELSE "ok"

SyncRows(p) ==
    [i \in Ids |->
        CASE tracker[p][i] \in {"Insert", "Upsert"} -> "present"
          [] tracker[p][i] = "Delete" -> "absent"
          [] OTHER -> tx[p].rows[i]]

SyncBlocked(p) == \E i \in Pending(p) : EntityRowLocked(p, i)

(* what follows a performUpdates that returned *)
AfterUpdates(p) ==
    IF call[p].kind = "transact" THEN "status" ELSE "hotloop"

(* the writer callback calls store.insert / upsert / delete *)
WriterOp(p, op, i) ==
    /\ pc[p] = "writer"
    /\ store[p].ops < MaxWriterOps
    /\ LET next == TrackerApply(op, tracker[p][i]) IN
       IF next = "throw"
       THEN /\ Fail(p, "writer")
            /\ UNCHANGED <<tracker, hist>>
       ELSE /\ tracker' = [tracker EXCEPT ![p][i] = next]
            /\ store' = [store EXCEPT ![p].ops = @ + 1]
            /\ hist' = [hist EXCEPT ![p].expect[i] =
                           IF op = "delete" THEN "absent" ELSE "present"]
            /\ UNCHANGED <<pc, retries, result, tx, loop>>
    /\ UNCHANGED notDb
    /\ UNCHANGED <<isolation, dbImpl, nprocs, status, hotBlocks, dbRows, call, state,
                   calls>>

(* the writer callback calls store.find / count: the pending changes are
   written first *)
WriterFind(p) ==
    /\ pc[p] = "writer"
    /\ store[p].ops < MaxWriterOps
    /\ ~SyncBlocked(p)
    /\ IF SyncOutcome(p) # "ok"
       THEN /\ Fail(p, SyncOutcome(p))
            /\ UNCHANGED tracker
       ELSE /\ tx' = [tx EXCEPT ![p].rows = SyncRows(p)]
            /\ tracker' = [tracker EXCEPT ![p] = [i \in Ids |-> "none"]]
            /\ store' = [store EXCEPT ![p].ops = @ + 1]
            /\ UNCHANGED <<pc, retries, result, loop>>
    /\ UNCHANGED notDb
    /\ UNCHANGED <<isolation, dbImpl, nprocs, status, hotBlocks, dbRows, call, state,
                   hist, calls>>

(* the writer callback returns.  TypeormDatabase.performUpdates then awaits
   store.flush() (or store.sync()) and closes the store; the performUpdates of
   TypeormDatabaseWithCache only closes it *)
WriterReturn(p) ==
    /\ pc[p] = "writer"
    /\ IF dbImpl = "TypeormDatabase"
       THEN /\ ~SyncBlocked(p)
            /\ IF SyncOutcome(p) # "ok"
               THEN /\ Fail(p, SyncOutcome(p))
                    /\ UNCHANGED <<tracker, hist>>
               ELSE /\ tx' = [tx EXCEPT ![p].rows = SyncRows(p)]
                    /\ tracker' = [tracker EXCEPT ![p] = [i \in Ids |-> "none"]]
                    /\ store' = [store EXCEPT ![p] = NoStore]
                    /\ pc' = [pc EXCEPT ![p] = AfterUpdates(p)]
                    /\ UNCHANGED <<retries, result, loop, hist>>
       ELSE /\ store' = [store EXCEPT ![p] = NoStore]
            /\ pc' = [pc EXCEPT ![p] = AfterUpdates(p)]
            /\ hist' = [hist EXCEPT ![p].dropped = @ \/ Pending(p) # {}]
            /\ UNCHANGED <<tracker, tx, retries, result, loop>>
    /\ UNCHANGED notDb
    /\ UNCHANGED <<isolation, dbImpl, nprocs, status, hotBlocks, dbRows, call, state,
                   calls>>

(* the writer callback throws: finally closes the store, the error leaves tx *)
WriterThrow(p) ==
    /\ pc[p] = "writer"
    /\ Fail(p, "writer")
    /\ UNCHANGED notDb
    /\ UNCHANGED <<isolation, dbImpl, nprocs, status, hotBlocks, dbRows, call, state,
                   tracker, hist, calls>>

(* for (let i = finalizedEnd; i < info.newBlocks.length; i++):
   insertHotBlock(em, b), then performUpdates(cb(store, i, i + 1), em, tracker) *)
HotLoop(p) ==
    /\ pc[p] = "hotloop"
    /\ LET info == call[p]
           i == loop[p]
       IN  IF i < Len(info.newBlocks)
           THEN LET b == At0(info.newBlocks, i) IN
                /\ ~HotRowLocked(p, b.height)
                /\ IF \E v \in VisibleHot(p) : v.height = b.height
                   THEN /\ Fail(p, "error")
                        /\ UNCHANGED <<tracker, hist>>
                   ELSE /\ tx' = [tx EXCEPT ![p].ins = @ \cup {b}]
                        /\ EnterWriter(p, TRUE)
                        /\ hist' = [hist EXCEPT
                                      ![p].hotInserts = Append(@, b),
                                      ![p].writerRuns = @ + 1,
                                      ![p].slices =
                                          Append(@, Slice(i, i + 1, {b.height}))]
                        /\ loop' = [loop EXCEPT ![p] = i + 1]
                        /\ UNCHANGED <<retries, result>>
           ELSE /\ pc' = [pc EXCEPT ![p] = "finish"]
                /\ UNCHANGED <<tx, store, tracker, hist, loop, retries, result>>
    /\ UNCHANGED notDb
    /\ UNCHANGED <<isolation, dbImpl, nprocs, status, hotBlocks, dbRows, call, state,
                   calls>>

(* the end of transactHot2: the finalized head is looked up in the new chain
   and deleteHotBlocks(em, finalizedHead.height) runs *)
Finish(p) ==
    /\ pc[p] = "finish"
    /\ LET info == call[p]
           chain == NewChain(state[p], info)
           finalizedHeadPos == IF chain = <<>> THEN -1
                               ELSE info.finalizedHead.height - chain[1].height
           doomed == {v.height : v \in {w \in VisibleHot(p) :
                                          w.height <= info.finalizedHead.height}}
       IN  IF ~Defined0(chain, finalizedHeadPos)
           THEN Fail(p, "error")
           ELSE IF At0(chain, finalizedHeadPos).hash # info.finalizedHead.hash
           THEN Fail(p, "assert")
           ELSE /\ \A h \in doomed : ~HotRowLocked(p, h)
                /\ IF Snapshot /\ doomed \cap tx[p].staleHot # {}
                   THEN Fail(p, "40001")
                   ELSE /\ tx' = [tx EXCEPT ![p].del = @ \cup doomed,
                                            ![p].ins = {b \in @ : b.height \notin doomed}]
                        /\ pc' = [pc EXCEPT ![p] = "status"]
                        /\ UNCHANGED <<store, loop, retries, result>>
    /\ UNCHANGED notDb
    /\ UNCHANGED <<isolation, dbImpl, nprocs, status, hotBlocks, dbRows, call, state,
                   tracker, hist, calls>>

(* the UPDATE without `AND nonce = $3` *)
StatusRowMatches_anyNonce(row, nonce) == TRUE

(* UPDATE status SET height = $1, hash = $2, nonce = nonce + 1
   WHERE id = 0 AND nonce = $3: the row the statement finds *)
StatusRowMatches(row, nonce) == row.nonce = nonce

(* the UPDATE that leaves the nonce as it is *)
NextStatus_sameNonce(row, next) ==
    [height |-> next.height, hash |-> next.hash, nonce |-> row.nonce]

(* SET height = $1, hash = $2, nonce = nonce + 1: the row after the UPDATE *)
NextStatus(row, next) ==
    [height |-> next.height, hash |-> next.hash, nonce |-> row.nonce + 1]

(* updateStatus(em, state.nonce, next) *)
UpdateStatus(p) ==
    /\ pc[p] = "status"
    /\ ~StatusRowLocked(p)
    /\ LET info == call[p]
           next == IF info.kind = "transact" THEN info.nextHead ELSE info.finalizedHead
           row == IF tx[p].status # NoStatus THEN tx[p].status ELSE status
       IN  IF Snapshot /\ tx[p].staleStatus
           THEN /\ Fail(p, "40001")
                /\ UNCHANGED hist
           ELSE IF ~StatusRowMatches(row, state[p].nonce)
           THEN /\ Fail(p, RACE_MSG)
                /\ UNCHANGED hist
           ELSE /\ tx' = [tx EXCEPT ![p].status = NextStatus(row, next)]
                /\ hist' = [hist EXCEPT ![p].statusUpdated = TRUE]
                /\ pc' = [pc EXCEPT ![p] = "commit"]
                /\ UNCHANGED <<store, loop, retries, result>>
    /\ UNCHANGED notDb
    /\ UNCHANGED <<isolation, dbImpl, nprocs, status, hotBlocks, dbRows, call, state,
                   tracker, calls>>

(* con.transaction(...) commits: the effects become the persisted state, and
   every other open transaction's snapshot is now behind on the rows written *)
Commit(p) ==
    /\ pc[p] = "commit"
    /\ status' = IF tx[p].status # NoStatus THEN tx[p].status ELSE status
    /\ hotBlocks' = {b \in hotBlocks : b.height \notin tx[p].del} \cup tx[p].ins
    /\ dbRows' = {i \in Ids : VisibleRow(p, i)}
    /\ tx' = [q \in Procs |->
                IF q = p THEN NoTx
                ELSE IF InTx(q)
                THEN [tx[q] EXCEPT
                        !.staleStatus = @ \/ tx[p].status # NoStatus,
                        !.staleHot = @ \cup tx[p].del \cup {b.height : b \in tx[p].ins},
                        !.staleRows = @ \cup {i \in Ids : tx[p].rows[i] # "same"}]
                ELSE tx[q]]
    /\ pc' = [pc EXCEPT ![p] = "done"]
    /\ result' = [result EXCEPT ![p] = "ok"]
    /\ UNCHANGED notDb
    /\ UNCHANGED <<isolation, dbImpl, nprocs, call, retries, state, loop, tracker, store,
                   hist, calls>>

(* the promise of transact / transactHot settles and the caller goes on *)
Return(p) ==
    /\ pc[p] = "done"
    /\ pc' = [pc EXCEPT ![p] = "idle"]
    /\ call' = [call EXCEPT ![p] = NoCall]
    /\ state' = [state EXCEPT ![p] = NoState]
    /\ hist' = [hist EXCEPT ![p] = NoHist]
    /\ result' = [result EXCEPT ![p] = "none"]
    /\ retries' = [retries EXCEPT ![p] = SubmitRetries]
    /\ UNCHANGED notDb
    /\ UNCHANGED <<isolation, dbImpl, nprocs, status, hotBlocks, dbRows, tx, loop, tracker,
                   store, calls>>

----------------------------------------------------------------------------
(* connect() on a new database: initTransaction inserts the status row
   (0, -1, '0x') with nonce 0, and hot_block is empty *)
InitPersisted ==
    /\ status = [height |-> InitialHeight, hash |-> InitialHash, nonce |-> 0]
    /\ hotBlocks = {}
    /\ dbRows = {}

InitProcs ==
    /\ pc = [p \in Procs |-> "idle"]
    /\ call = [p \in Procs |-> NoCall]
    /\ retries = [p \in Procs |-> SubmitRetries]
    /\ state = [p \in Procs |-> NoState]
    /\ tx = [p \in Procs |-> NoTx]
    /\ loop = [p \in Procs |-> 0]
    /\ tracker = [p \in Procs |-> [i \in Ids |-> "none"]]
    /\ store = [p \in Procs |-> NoStore]
    /\ hist = [p \in Procs |-> NoHist]
    /\ result = [p \in Procs |-> "none"]
    /\ calls = 0

(* the variables of the other specifications at rest *)
TrackerIdle ==
    /\ tkImpl = "none"
    /\ tkMap = <<>>
    /\ tkLast = <<>>
    /\ tkLen = 0

OrderIdle ==
    /\ ordSchema = <<>>
    /\ ordEntities = <<>>
    /\ ordAlgo = "none"
    /\ ordResult = [order |-> <<>>, error |-> FALSE]

SyncIdle ==
    /\ syImpl = "none"
    /\ sySchema = <<>>
    /\ syEntities = <<>>
    /\ syMaps = {}
    /\ syChanges = <<>>
    /\ syCache = <<>>
    /\ syCalls = 0
    /\ syPhase = "none"
    /\ syBatch = <<>>
    /\ syWrites = <<>>
    /\ syDb = {}
    /\ syQuery = [kind |-> "none"]

NoOp == [op |-> "none"]

NoAdd == [type |-> "none"]

ManagerIdle ==
    /\ mgState = <<>>
    /\ mgMaps = {}
    /\ mgCache = <<>>
    /\ mgAwait = [kind |-> "none"]
    /\ mgDeleted = {}
    /\ mgLast = [op |-> "none"]
    /\ mgCalls = 0


MutexIdle ==
    /\ mxQueue = <<>>
    /\ mxResolved = {}
    /\ mxPc = <<>>
    /\ mxWait = <<>>
    /\ mxPending = {}
    /\ mxDelivered = <<>>
    /\ mxFailed = {}
    /\ mxFutures = 0
    /\ mxWrites = 0
    /\ mxStray = 0


AddIdle ==
    /\ adImpl = "none"
    /\ adCache = <<>>
    /\ adColumns = <<>>
    /\ adLast = NoAdd
    /\ adBefore = <<>>
    /\ adOnce = <<>>
    /\ adRepeated = FALSE
    /\ adCalls = 0


CloseIdle ==
    /\ clImpl = "none"
    /\ clPhase = "none"
    /\ clClosed = FALSE
    /\ clPending = {}
    /\ clQueries = 0
    /\ clLast = NoOp
    /\ clOps = 0

SubmitIdle ==
    /\ sbConnected = FALSE
    /\ sbPc = "none"
    /\ sbRetries = 0
    /\ sbLog = <<>>
    /\ sbThrown = "none"
    /\ sbPast = <<>>

NoLoad == [kind |-> "none", after |-> "none"]

DeferIdle ==
    /\ dfBatchSize = 0
    /\ dfRows = {}
    /\ dfIds = <<>>
    /\ dfCache = <<>>
    /\ dfLast = NoLoad
    /\ dfLoads = 0

CacheIdle ==
    /\ caImpl = "none"
    /\ caCache = <<>>
    /\ caPending = <<>>
    /\ caLog = <<>>
    /\ caResult = [kind |-> "none"]
    /\ caPhase = "none"

DbIdle ==
    /\ isolation = "SERIALIZABLE"
    /\ dbImpl = "TypeormDatabase"
    /\ nprocs = 0
    /\ InitPersisted
    /\ InitProcs

(* SpecDb: one processor issues transact / transactHot calls one after the
   other *)
InitDb ==
    /\ isolation = "SERIALIZABLE"
    /\ dbImpl \in {"TypeormDatabase", "TypeormDatabaseWithCache"}
    /\ nprocs = 1
    /\ InitPersisted
    /\ InitProcs
    /\ TrackerIdle
    /\ OrderIdle
    /\ SyncIdle
    /\ CacheIdle
    /\ DeferIdle
    /\ SubmitIdle
    /\ CloseIdle
    /\ AddIdle
    /\ MutexIdle
    /\ ManagerIdle

NextDb ==
    \E p \in {1} :
        \/ transact(p)
        \/ transactHot(p)
        \/ GetState(p)
        \/ RollbackStep(p)
        \/ RollbackDone(p)
        \/ \E op \in {"insert", "upsert", "delete"}, i \in Ids : WriterOp(p, op, i)
        \/ WriterFind(p)
        \/ WriterReturn(p)
        \/ WriterThrow(p)
        \/ HotLoop(p)
        \/ Finish(p)
        \/ UpdateStatus(p)
        \/ Commit(p)
        \/ Return(p)

SpecDb == InitDb /\ [][NextDb]_vars

(* SpecRace: two processors, each with its own connection, call transact at
   the same time against one database *)
InitRace ==
    /\ isolation \in {"SERIALIZABLE", "REPEATABLE READ", "READ COMMITTED"}
    /\ dbImpl = "TypeormDatabase"
    /\ nprocs = 2
    /\ InitPersisted
    /\ InitProcs
    /\ TrackerIdle
    /\ OrderIdle
    /\ SyncIdle
    /\ CacheIdle
    /\ DeferIdle
    /\ SubmitIdle
    /\ CloseIdle
    /\ AddIdle
    /\ MutexIdle
    /\ ManagerIdle

NextRace ==
    \E p \in Procs :
        \/ transact(p)
        \/ GetState(p)
        \/ RollbackDone(p)
        \/ \E op \in {"insert", "upsert", "delete"}, i \in Ids : WriterOp(p, op, i)
        \/ WriterFind(p)
        \/ WriterReturn(p)
        \/ WriterThrow(p)
        \/ UpdateStatus(p)
        \/ Commit(p)

SpecRace == InitRace /\ [][NextRace]_vars

----------------------------------------------------------------------------
(* SpecTracker: one change tracker (the StateManager, a ChangeMap or an
   UpdateMap) receives insert / upsert / delete calls for two identities *)

TkIds == {"e1", "e2"}
TrackerImpls == {"StateManager", "ChangeMap", "UpdateMap", "UpdatesTracker"}
TrackerOps == {"insert", "upsert", "delete"}

(* the call `op` on the tracker `impl`, the record of the identity being
   prevType: the record after the call, or "throw" *)
TrackerOf(impl, op, prevType) ==
    CASE impl = "StateManager" ->
            (CASE op = "insert" -> SM_insert(prevType)
               [] op = "upsert" -> SM_upsert(prevType)
               [] op = "delete" -> SM_delete(prevType))
      [] impl = "ChangeMap" ->
            (CASE op = "insert" -> ChangeMap_insert(prevType)
               [] op = "upsert" -> ChangeMap_upsert(prevType)
               [] op = "delete" -> ChangeMap_remove(prevType))
      [] impl = "UpdateMap" ->
            (CASE op = "insert" -> UpdateMap_insert(prevType)
               [] op = "upsert" -> UpdateMap_upsert(prevType)
               [] op = "delete" -> UpdateMap_remove(prevType))
      [] impl = "UpdatesTracker" ->
            (CASE op = "insert" -> UpdatesTracker_insert(prevType)
               [] op = "upsert" -> UpdatesTracker_upsert(prevType)
               [] op = "delete" -> UpdatesTracker_remove(prevType))

NoTrackerCall == [op |-> "none", id |-> "none", prev |-> "none", outcome |-> "none"]

InitTracker ==
    /\ tkImpl \in TrackerImpls
    /\ tkMap = [i \in TkIds |-> "none"]
    /\ tkLast = NoTrackerCall
    /\ tkLen = 0
    /\ DbIdle
    /\ OrderIdle
    /\ SyncIdle
    /\ CacheIdle
    /\ DeferIdle
    /\ SubmitIdle
    /\ CloseIdle
    /\ AddIdle
    /\ MutexIdle
    /\ ManagerIdle

(* one call; a thrown Error leaves the map as it was *)
TrackerCall(op, i) ==
    /\ tkLen < MaxTrackerCalls
    /\ LET outcome == TrackerOf(tkImpl, op, tkMap[i]) IN
        /\ tkMap' = IF outcome = "throw" THEN tkMap ELSE [tkMap EXCEPT ![i] = outcome]
        /\ tkLast' = [op |-> op, id |-> i, prev |-> tkMap[i], outcome |-> outcome]
    /\ tkLen' = tkLen + 1
    /\ UNCHANGED tkImpl
    /\ UNCHANGED notTracker

TrackerInsert == \E i \in TkIds : TrackerCall("insert", i)
TrackerUpsert == \E i \in TkIds : TrackerCall("upsert", i)
TrackerDelete == \E i \in TkIds : TrackerCall("delete", i)

NextTracker == TrackerInsert \/ TrackerUpsert \/ TrackerDelete

SpecTracker == InitTracker /\ [][NextTracker]_vars

(* the transition table: the record after `op`, or "throw" *)
TransitionTable(op, prevType) ==
    CASE op = "insert" ->
            (CASE prevType = "none" -> "Insert"
               [] prevType \in {"Insert", "Upsert"} -> "throw"
               [] prevType = "Delete" -> "Upsert")
      [] op = "upsert" ->
            (CASE prevType = "Insert" -> "Insert"
               [] OTHER -> "Upsert")
      [] op = "delete" ->
            (CASE prevType = "Insert" -> "none"
               [] OTHER -> "Delete")

(* C3 as stated: after every call of a sequence of insert / upsert / delete
   calls, the pending change record of the identity is the one the transition
   table gives (an insert over Insert or Upsert throws and changes nothing),
   and every record is one of Insert, Upsert, Delete or absent. *)
C3_AsStated ==
    /\ \A i \in TkIds : tkMap[i] \in RecordStates
    /\ tkLast.op # "none" =>
          /\ tkLast.outcome = TransitionTable(tkLast.op, tkLast.prev)
          /\ tkMap[tkLast.id] =
                IF tkLast.outcome = "throw" THEN tkLast.prev ELSE tkLast.outcome

(* C14 as stated: insert on an identity whose pending record is Insert or
   Upsert raises an error and leaves the change record of the identity as it
   was. *)
C14_AsStated ==
    (tkLast.op = "insert" /\ tkLast.prev \in {"Insert", "Upsert"}) =>
        /\ tkLast.outcome = "throw"
        /\ tkMap[tkLast.id] = tkLast.prev

(* C15 as stated: delete on an identity whose pending record is Insert
   removes the record, so the next sync writes neither an insert nor a delete
   for the identity. *)
C15_AsStated ==
    (tkLast.op = "delete" /\ tkLast.prev = "Insert") =>
        tkMap[tkLast.id] = "none"

(* C16 as stated: insert or upsert on an identity whose pending record is
   Delete changes the record to Upsert, never to Insert. *)
C16_AsStated ==
    (tkLast.op \in {"insert", "upsert"} /\ tkLast.prev = "Delete") =>
        /\ tkLast.outcome # "throw"
        /\ tkMap[tkLast.id] = "Upsert"

----------------------------------------------------------------------------
(* SpecOrder: a schema is declared relation by relation, then one of the
   commit-order resolvers runs over connection.entityMetadatas *)

OrdTypes == {"A", "B", "C"}

(* a RelationMetadata: inverseEntityMetadata, foreignKeys.length > 0,
   isNullable.  The side of a relation that owns no foreign key keeps the
   default isNullable = true *)
Relations ==
    {r \in [target : OrdTypes, fk : BOOLEAN, nullable : BOOLEAN] : ~r.fk => r.nullable}

NoSchema == [t \in OrdTypes |-> <<>>]
NoOrder == [order |-> <<>>, error |-> FALSE]

Unvisited == "Unvisited"
Visiting == "Visiting"
Visited == "Visited"

NewSearch == [nodeState |-> [t \in OrdTypes |-> Unvisited], order |-> <<>>]

getWeight(edge) == IF edge.nullable THEN 0 ELSE 1

(* target.relations.find((r) => r.inverseEntityMetadata === node): its index,
   or 0 *)
reversedEdge(schema, target, node) ==
    LET ks == {k \in DOMAIN schema[target] : schema[target][k].target = node}
    IN  IF ks = {} THEN 0 ELSE CHOOSE k \in ks : \A j \in ks : k <= j

Push(st, node) ==
    [nodeState |-> [st.nodeState EXCEPT ![node] = Visited],
     order |-> Append(st.order, node)]

(* getMetadatasInCommitOrder (commitOrder.ts): visit(node), its loop over
   node.relations from index k, and the loop over target.relations *)
RECURSIVE visit(_, _, _)
RECURSIVE visitEdges(_, _, _, _)
RECURSIVE visitRelations(_, _, _, _)
visit(schema, node, st) ==
    IF st.nodeState[node] # Unvisited THEN st
    ELSE LET st1 == visitEdges(schema, node, 1,
                               [st EXCEPT !.nodeState[node] = Visiting])
         IN  IF st1.nodeState[node] # Visited THEN Push(st1, node) ELSE st1

visitEdges(schema, node, k, st) ==
    IF k > Len(schema[node]) THEN st
    ELSE LET edge == schema[node][k]
             target == edge.target
             rev == reversedEdge(schema, target, node)
             st1 ==
                IF ~edge.fk THEN st
                ELSE IF st.nodeState[target] = Unvisited THEN visit(schema, target, st)
                ELSE IF st.nodeState[target] = Visiting
                        /\ rev # 0
                        /\ getWeight(edge) > getWeight(schema[target][rev])
                THEN Push(visitRelations(schema, target, 1, st), target)
                ELSE st
         IN  visitEdges(schema, node, k + 1, st1)

visitRelations(schema, target, k, st) ==
    IF k > Len(schema[target]) THEN st
    ELSE visitRelations(schema, target, k + 1,
                        visit(schema, schema[target][k].target, st))

RECURSIVE visitAll(_, _, _, _)
visitAll(schema, entities, k, st) ==
    IF k > Len(entities) THEN st
    ELSE visitAll(schema, entities, k + 1, visit(schema, entities[k], st))

getMetadatasInCommitOrder(schema, entities) ==
    [order |-> visitAll(schema, entities, 1, NewSearch).order, error |-> FALSE]

(* RelationGraph.getCommitOrder: the same search, except that a target found
   Visiting with a reversed edge is marked Visited and pushed whatever the
   weights are *)
RECURSIVE RG_visit(_, _, _)
RECURSIVE RG_visitEdges(_, _, _, _)
RECURSIVE RG_visitRelations(_, _, _, _)
RG_visit(schema, node, st) ==
    IF st.nodeState[node] # Unvisited THEN st
    ELSE LET st1 == RG_visitEdges(schema, node, 1,
                                  [st EXCEPT !.nodeState[node] = Visiting])
         IN  IF st1.nodeState[node] # Visited THEN Push(st1, node) ELSE st1

RG_visitEdges(schema, node, k, st) ==
    IF k > Len(schema[node]) THEN st
    ELSE LET edge == schema[node][k]
             target == edge.target
             rev == reversedEdge(schema, target, node)
             st1 ==
                IF ~edge.fk THEN st
                ELSE IF st.nodeState[target] = Unvisited
                THEN RG_visit(schema, target, st)
                ELSE IF st.nodeState[target] = Visiting /\ rev # 0
                THEN Push(IF getWeight(edge) > getWeight(schema[target][rev])
                          THEN RG_visitRelations(schema, target, 1, st)
                          ELSE st,
                          target)
                ELSE st
         IN  RG_visitEdges(schema, node, k + 1, st1)

RG_visitRelations(schema, target, k, st) ==
    IF k > Len(schema[target]) THEN st
    ELSE RG_visitRelations(schema, target, k + 1,
                           RG_visit(schema, schema[target][k].target, st))

RECURSIVE RG_visitAll(_, _, _, _)
RG_visitAll(schema, entities, k, st) ==
    IF k > Len(entities) THEN st
    ELSE RG_visitAll(schema, entities, k + 1, RG_visit(schema, entities[k], st))

getCommitOrder(schema, entities) ==
    [order |-> RG_visitAll(schema, entities, 1, NewSearch).order, error |-> FALSE]

(* StoreWithCache.getTopologicalOrder: the graph of foreign keys without
   self-references; graph.topologicalSort() is the reversed post-order of a
   depth-first search from every node in insertion order, and throws on a
   cycle; .reverse() gives the post-order back *)
foreignKeys(schema, t) ==
    SelectSeq(schema[t], LAMBDA r : r.fk /\ r.target # t)

AddNode(nodes, n) == IF n \in Range(nodes) THEN nodes ELSE Append(nodes, n)

RECURSIVE AddTargets(_, _, _)
AddTargets(nodes, fks, k) ==
    IF k > Len(fks) THEN nodes
    ELSE AddTargets(AddNode(nodes, fks[k].target), fks, k + 1)

RECURSIVE GraphNodes(_, _, _, _)
GraphNodes(schema, entities, k, nodes) ==
    IF k > Len(entities) THEN nodes
    ELSE GraphNodes(schema, entities, k + 1,
                    AddTargets(AddNode(nodes, entities[k]),
                               foreignKeys(schema, entities[k]), 1))

RECURSIVE DFSVisit(_, _, _)
RECURSIVE DFSAdjacent(_, _, _, _)
DFSVisit(schema, node, st) ==
    IF st.visiting[node] THEN [st EXCEPT !.error = TRUE]
    ELSE IF st.visited[node] THEN st
    ELSE LET st1 == DFSAdjacent(schema, node, 1,
                                [st EXCEPT !.visited[node] = TRUE,
                                           !.visiting[node] = TRUE])
         IN  [st1 EXCEPT !.visiting[node] = FALSE, !.nodeList = Append(@, node)]

DFSAdjacent(schema, node, k, st) ==
    LET adjacent == foreignKeys(schema, node) IN
    IF k > Len(adjacent) \/ st.error THEN st
    ELSE DFSAdjacent(schema, node, k + 1, DFSVisit(schema, adjacent[k].target, st))

RECURSIVE depthFirstSearch(_, _, _, _)
depthFirstSearch(schema, nodes, k, st) ==
    IF k > Len(nodes) \/ st.error THEN st
    ELSE depthFirstSearch(schema, nodes, k + 1, DFSVisit(schema, nodes[k], st))

getTopologicalOrder(schema, entities) ==
    LET st == depthFirstSearch(schema, GraphNodes(schema, entities, 1, <<>>), 1,
                               [visited |-> [t \in OrdTypes |-> FALSE],
                                visiting |-> [t \in OrdTypes |-> FALSE],
                                nodeList |-> <<>>, error |-> FALSE])
    IN  IF st.error THEN [order |-> <<>>, error |-> TRUE]
        ELSE [order |-> st.nodeList, error |-> FALSE]

Enumerations ==
    {e \in [1 .. Cardinality(OrdTypes) -> OrdTypes] : Range(e) = OrdTypes}

TotalRelations(schema, types) ==
    LET RECURSIVE Sum(_)
        Sum(ts) == IF ts = {} THEN 0
                   ELSE LET t == CHOOSE x \in ts : TRUE
                        IN  Len(schema[t]) + Sum(ts \ {t})
    IN  Sum(types)

InitOrder ==
    /\ ordSchema = NoSchema
    /\ ordEntities = <<>>
    /\ ordAlgo = "none"
    /\ ordResult = NoOrder
    /\ DbIdle
    /\ TrackerIdle
    /\ SyncIdle
    /\ CacheIdle
    /\ DeferIdle
    /\ SubmitIdle
    /\ CloseIdle
    /\ AddIdle
    /\ MutexIdle
    /\ ManagerIdle

(* an entity class declares one more relation; the side without a foreign
   key exists only opposite a side that owns one *)
DeclareRelation(t, r) ==
    /\ ordAlgo = "none"
    /\ TotalRelations(ordSchema, OrdTypes) < MaxRelations
    /\ ~r.fk => \E k \in DOMAIN ordSchema[r.target] :
                    ordSchema[r.target][k].fk /\ ordSchema[r.target][k].target = t
    /\ ordSchema' = [ordSchema EXCEPT ![t] = Append(@, r)]
    /\ UNCHANGED <<ordEntities, ordAlgo, ordResult>>
    /\ UNCHANGED notOrder

Resolve(algo, entities, commitOrder) ==
    /\ ordAlgo = "none"
    /\ ordAlgo' = algo
    /\ ordEntities' = entities
    /\ ordResult' = commitOrder
    /\ UNCHANGED ordSchema
    /\ UNCHANGED notOrder

RunGetMetadatasInCommitOrder ==
    \E e \in Enumerations :
        Resolve("getMetadatasInCommitOrder", e, getMetadatasInCommitOrder(ordSchema, e))

RunGetCommitOrder ==
    \E e \in Enumerations : Resolve("getCommitOrder", e, getCommitOrder(ordSchema, e))

RunGetTopologicalOrder ==
    \E e \in Enumerations :
        Resolve("getTopologicalOrder", e, getTopologicalOrder(ordSchema, e))

NextOrder ==
    \/ \E t \in OrdTypes, r \in Relations : DeclareRelation(t, r)
    \/ RunGetMetadatasInCommitOrder
    \/ RunGetCommitOrder
    \/ RunGetTopologicalOrder

SpecOrder == InitOrder /\ [][NextOrder]_vars

(* the foreign-key graph without self-relations, and its transitive closure *)
FkEdge(schema, a, b) ==
    a # b /\ \E k \in DOMAIN schema[a] : schema[a][k].fk /\ schema[a][k].target = b

NonNullableFk(schema, a, b) ==
    a # b /\ \E k \in DOMAIN schema[a] :
                schema[a][k].fk /\ ~schema[a][k].nullable /\ schema[a][k].target = b

RECURSIVE Reaches(_, _, _, _)
Reaches(schema, a, b, n) ==
    \/ FkEdge(schema, a, b)
    \/ n > 1 /\ \E c \in OrdTypes \ {a} : FkEdge(schema, a, c) /\ Reaches(schema, c, b, n - 1)

Acyclic(schema) ==
    \A a \in OrdTypes :
        ~\E c \in OrdTypes \ {a} :
            FkEdge(schema, a, c) /\ Reaches(schema, c, a, Cardinality(OrdTypes))

FirstIndex(order, t) ==
    LET ks == {k \in DOMAIN order : order[k] = t}
    IN  IF ks = {} THEN 0 ELSE CHOOSE k \in ks : \A j \in ks : k <= j

Precedes(order, b, a) ==
    /\ FirstIndex(order, b) # 0
    /\ FirstIndex(order, a) # 0
    /\ FirstIndex(order, b) < FirstIndex(order, a)

CommitOrderRespectsFks ==
    /\ ~ordResult.error
    /\ \A a \in OrdTypes, b \in OrdTypes :
          NonNullableFk(ordSchema, a, b) => Precedes(ordResult.order, b, a)

(* C2 as stated: for every schema whose foreign-key graph (self-relations
   excluded) has no cycle and every enumeration order of the entity types,
   each resolver returns a commit order that places B before A whenever A has
   a non-nullable foreign-key relation to B. *)
C2_AsStated ==
    (ordAlgo # "none" /\ Acyclic(ordSchema)) => CommitOrderRespectsFks

(* a and b reference each other: the relation of a to b is nullable, the
   relation of b to a is not *)
FksTo(schema, a, b) ==
    {k \in DOMAIN schema[a] : schema[a][k].fk /\ schema[a][k].target = b}

NullableAgainstRequired(schema, a, b) ==
    /\ a # b
    /\ FksTo(schema, a, b) # {}
    /\ FksTo(schema, b, a) # {}
    /\ \A k \in FksTo(schema, a, b) : schema[a][k].nullable
    /\ \A k \in FksTo(schema, b, a) : ~schema[b][k].nullable

VisitResolvers == {"getMetadatasInCommitOrder", "getCommitOrder"}

(* C23 as stated: for two entity types A and B that reference each other, A's
   relation to B nullable and B's relation to A non-nullable, the commit
   order places A before B for every enumeration order of the entity types. *)
C23_AsStated ==
    ordAlgo \in VisitResolvers =>
        \A a \in OrdTypes, b \in OrdTypes :
            NullableAgainstRequired(ordSchema, a, b) =>
                Precedes(ordResult.order, a, b)

(* the commit order holds every entity type exactly once *)
TotalOrder(order) ==
    /\ Len(order) = Cardinality(OrdTypes)
    /\ \A t \in OrdTypes : Cardinality({k \in DOMAIN order : order[k] = t}) = 1

(* C24 as stated: for every schema, with relation cycles, self-relations and
   inverse relations, the computed commit order is a total order: it holds
   every entity type exactly once (and the computation ends). *)
C24_AsStated ==
    ordAlgo \in VisitResolvers => ~ordResult.error /\ TotalOrder(ordResult.order)

----------------------------------------------------------------------------
(* SpecSync: entities of two types are inserted, upserted and deleted through
   a store, then the pending changes are handed to the database writer:
   StateManager.performUpdate, or StoreWithCache.commit *)

SyTypes == {"A", "B"}
SyIds == {"1", "2"}
SyIdentities == SyTypes \X SyIds
RelValues == SyIds \cup {"null"}

ValidSchema(schema) ==
    \A t \in OrdTypes : \A k \in DOMAIN schema[t] :
        ~schema[t][k].fk =>
            \E j \in DOMAIN schema[schema[t][k].target] :
                /\ schema[schema[t][k].target][j].fk
                /\ schema[schema[t][k].target][j].target = t

SyncSchemas ==
    {schema \in [OrdTypes -> SeqsUpTo({r \in Relations : r.target \in SyTypes},
                                      MaxSyncRelations)] :
        schema["C"] = <<>> /\ ValidSchema(schema)}

SyncEnumerations == {e \in Enumerations : e[Len(e)] = "C"}

(* the relation values of an entity of type t: the id of the related entity
   or null, per relation; only the owning side is kept by the cache *)
EntityValues(schema, t) ==
    {rels \in [1 .. Len(schema[t]) -> RelValues] :
        \A k \in DOMAIN rels : ~schema[t][k].fk => rels[k] = "null"}

(* a cache entry: none for the identity, an empty CachedEntity (value null),
   or a CachedEntity with a value and its relations *)
NoEntity == [known |-> FALSE, value |-> FALSE, rels |-> <<>>]
EmptyEntity == [known |-> TRUE, value |-> FALSE, rels |-> <<>>]

NoQuery == [kind |-> "none"]

(* the rows the database holds before the store is used *)
InitialRows == {{}, {<<"A", "1">>, <<"B", "1">>}}

(* Map.get / Map.set / Map.delete on the change records *)
ChangeOf(changes, t, id) ==
    LET ks == {k \in DOMAIN changes : changes[k].type = t /\ changes[k].id = id}
    IN  IF ks = {} THEN "none" ELSE changes[CHOOSE k \in ks : TRUE].change

SetChange(changes, t, id, c) ==
    IF c = "none"
    THEN SelectSeq(changes, LAMBDA e : ~(e.type = t /\ e.id = id))
    ELSE IF ChangeOf(changes, t, id) = "none"
    THEN Append(changes, [type |-> t, id |-> id, change |-> c])
    ELSE [k \in DOMAIN changes |->
            IF changes[k].type = t /\ changes[k].id = id
            THEN [changes[k] EXCEPT !.change = c] ELSE changes[k]]

RECURSIVE Flatten(_)
Flatten(seqs) == IF seqs = <<>> THEN <<>> ELSE Head(seqs) \o Flatten(Tail(seqs))

Write(op, t, id, rels) == [op |-> op, type |-> t, id |-> id, rels |-> rels]

(* commitOrderMap: the last index a type has in the commit order; 0 when it
   has none *)
commitOrderIndex(order, t) ==
    LET ks == {k \in DOMAIN order : order[k] = t}
    IN  IF ks = {} THEN 0 ELSE CHOOSE k \in ks : \A j \in ks : j <= k

(* processEntityRelations: is relation k of the entity set to undefined? *)
shouldProcess(schema, order, changes, t, id, rels, k, changeType) ==
    LET relation == schema[t][k]
        inverse == ChangeOf(changes, relation.target, rels[k])
        later == /\ commitOrderIndex(order, relation.target) # 0
                 /\ commitOrderIndex(order, relation.target) >= commitOrderIndex(order, t)
    IN  /\ relation.fk
        /\ relation.target # t
        /\ rels[k] # "null"
        /\ rels[k] # id
        /\ IF changeType = "Insert"
           THEN inverse = "Upsert" \/ (inverse = "Insert" /\ later)
           ELSE changeType = "Upsert" /\ inverse = "Upsert" /\ later

(* processEntityRelations that strips the relations and asks for no extra
   upsert *)
processEntityRelations_noExtra(schema, order, changes, t, id, rels, changeType) ==
    [entity |-> [k \in DOMAIN rels |->
                    IF shouldProcess(schema, order, changes, t, id, rels, k, changeType)
                    THEN "null" ELSE rels[k]],
     extraUpsert |-> FALSE]

processEntityRelations(schema, order, changes, t, id, rels, changeType) ==
    LET strip == {k \in DOMAIN rels :
                    shouldProcess(schema, order, changes, t, id, rels, k, changeType)}
    IN  [entity |-> [k \in DOMAIN rels |-> IF k \in strip THEN "null" ELSE rels[k]],
         extraUpsert |-> strip # {}]

(* StateManager.performUpdate: the change sets cb receives, entity by entity *)
performUpdate(schema, entities, changes, cache) ==
    LET order == getMetadatasInCommitOrder(schema, entities).order
        Processed(e) ==
            processEntityRelations(schema, order, changes, e.type, e.id,
                                   cache[<<e.type, e.id>>].rels, e.change)
        Of(t, c) == SelectSeq(changes, LAMBDA e : e.type = t /\ e.change = c)
        Extra(t) == SelectSeq(changes, LAMBDA e :
                        /\ e.type = t
                        /\ e.change \in {"Insert", "Upsert"}
                        /\ Processed(e).extraUpsert)
        inserts(t) == [i \in DOMAIN Of(t, "Insert") |->
                         Write("insert", t, Of(t, "Insert")[i].id,
                               Processed(Of(t, "Insert")[i]).entity)]
        upserts(t) == [i \in DOMAIN Of(t, "Upsert") |->
                         Write("upsert", t, Of(t, "Upsert")[i].id,
                               Processed(Of(t, "Upsert")[i]).entity)]
        deletes(t) == [i \in DOMAIN Of(t, "Delete") |->
                         Write("delete", t, Of(t, "Delete")[i].id, <<>>)]
        extraUpserts(t) == [i \in DOMAIN Extra(t) |->
                              Write("upsert", t, Extra(t)[i].id,
                                    cache[<<t, Extra(t)[i].id>>].rels)]
    IN  Flatten([k \in DOMAIN order |-> inserts(order[k])])
        \o Flatten([k \in DOMAIN order |-> upserts(order[k])])
        \o Flatten([k \in DOMAIN order |-> deletes(order[k])])
        \o Flatten([k \in DOMAIN order |-> extraUpserts(order[k])])

(* collectChangeSets that delays no upsert *)
isDelayed_never(schema, changes, t, rels) == FALSE

(* collectChangeSets: an upsert is delayed when a relation to its own entity
   type points at an entity that is pending Insert *)
isDelayed(schema, changes, t, rels) ==
    \E k \in DOMAIN rels :
        /\ schema[t][k].target = t
        /\ rels[k] # "null"
        /\ ChangeOf(changes, t, rels[k]) = "Insert"

(* StoreWithCache.commit: per entity type in commit order the upserts, the
   inserts and the delayed upserts; then the removes in reversed order *)
commit(schema, entities, changes, cache) ==
    LET entityOrder == getCommitOrder(schema, entities).order
        Rels(e) == cache[<<e.type, e.id>>].rels
        Upserts(t) == SelectSeq(changes, LAMBDA e :
                        e.type = t /\ e.change = "Upsert"
                        /\ ~isDelayed(schema, changes, t, Rels(e)))
        Inserts(t) == SelectSeq(changes, LAMBDA e : e.type = t /\ e.change = "Insert")
        Delayed(t) == SelectSeq(changes, LAMBDA e :
                        e.type = t /\ e.change = "Upsert"
                        /\ isDelayed(schema, changes, t, Rels(e)))
        Removes(t) == SelectSeq(changes, LAMBDA e : e.type = t /\ e.change = "Delete")
        saved(t) ==
            [i \in DOMAIN Upserts(t) |->
                Write("upsert", t, Upserts(t)[i].id, Rels(Upserts(t)[i]))]
            \o [i \in DOMAIN Inserts(t) |->
                Write("insert", t, Inserts(t)[i].id, Rels(Inserts(t)[i]))]
            \o [i \in DOMAIN Delayed(t) |->
                Write("upsert", t, Delayed(t)[i].id, Rels(Delayed(t)[i]))]
        removed(t) == [i \in DOMAIN Removes(t) |->
                         Write("delete", t, Removes(t)[i].id, <<>>)]
        n == Len(entityOrder)
    IN  Flatten([k \in 1 .. n |-> saved(entityOrder[k])])
        \o Flatten([k \in 1 .. n |-> removed(entityOrder[n + 1 - k])])

(* CacheMap.cacheRelatedEntities (cacheMap.ts of StoreWithCache): the owning
   relations of the source entity from index k on; a related entity must
   have a cache entry, and the relation is set to that entry's value *)
RECURSIVE cacheRelatedEntities(_, _, _, _, _, _)
cacheRelatedEntities(schema, cache, t, source, cached, k) ==
    IF k > Len(schema[t]) THEN [rels |-> cached, thrown |-> FALSE]
    ELSE LET relation == schema[t][k]
             target == <<relation.target, source[k]>>
         IN  IF source[k] = "undefined" \/ ~relation.fk
             THEN cacheRelatedEntities(schema, cache, t, source, cached, k + 1)
             ELSE IF source[k] = "null"
             THEN cacheRelatedEntities(schema, cache, t, source,
                                       [cached EXCEPT ![k] = "null"], k + 1)
             ELSE IF ~cache[target].known
             THEN [rels |-> cached, thrown |-> TRUE]
             ELSE cacheRelatedEntities(
                      schema, cache, t, source,
                      [cached EXCEPT ![k] = IF cache[target].value
                                            THEN source[k] ELSE "null"],
                      k + 1)

(* CacheMap.cacheEntity: the entry and its value are created when missing,
   then the relations are cached *)
cacheEntity(schema, cache, t, id, source) ==
    LET created == IF cache[<<t, id>>].value THEN cache[<<t, id>>].rels
                   ELSE [k \in 1 .. Len(schema[t]) |-> "undefined"]
        cache1 == [cache EXCEPT ![<<t, id>>] =
                      [known |-> TRUE, value |-> TRUE, rels |-> created]]
        related == cacheRelatedEntities(schema, cache1, t, source, created, 1)
    IN  [cache |-> [cache1 EXCEPT ![<<t, id>>].rels = related.rels],
         thrown |-> related.thrown]

(* the database executes the writes in order; the insert of a row that
   exists is refused *)
RECURSIVE ApplyWrites(_, _)
ApplyWrites(writes, rows) ==
    IF writes = <<>> THEN [rows |-> rows, error |-> FALSE]
    ELSE LET w == Head(writes)
             row == <<w.type, w.id>>
         IN  IF w.op = "insert" /\ row \in rows
             THEN [rows |-> rows, error |-> TRUE]
             ELSE ApplyWrites(Tail(writes),
                              IF w.op = "delete" THEN rows \ {row}
                              ELSE rows \cup {row})

(* the change tracker of the store *)
StoreTracker(op, prevType) ==
    IF syImpl = "StateManager" THEN TrackerOf("StateManager", op, prevType)
    ELSE TrackerOf("UpdateMap", op, prevType)

InitSync ==
    /\ syImpl \in {"StateManager", "StoreWithCache"}
    /\ sySchema \in SyncSchemas
    /\ syEntities \in SyncEnumerations
    /\ syMaps = {}
    /\ syChanges = <<>>
    /\ syCache = [e \in SyIdentities |-> NoEntity]
    /\ syCalls = 0
    /\ syPhase = "open"
    /\ syBatch = <<>>
    /\ syWrites = <<>>
    /\ syDb \in InitialRows
    /\ syQuery = NoQuery
    /\ DbIdle
    /\ TrackerIdle
    /\ OrderIdle
    /\ CacheIdle
    /\ DeferIdle
    /\ SubmitIdle
    /\ CloseIdle
    /\ AddIdle
    /\ MutexIdle
    /\ ManagerIdle

(* store.insert(entity) / store.upsert(entity): the change record, then the
   entity goes to the cache; an insert that the tracker refuses leaves both
   as they were.  StateManager caches the relations as id-only mocks;
   StoreWithCache's cache.add throws when a related entity has no entry *)
StoreSave(op, t, id, rels) ==
    /\ syPhase = "open"
    /\ syCalls < MaxStoreCalls
    /\ LET next == StoreTracker(op, ChangeOf(syChanges, t, id)) IN
       IF next = "throw"
       THEN UNCHANGED <<syChanges, syCache>>
       ELSE /\ syChanges' = SetChange(syChanges, t, id, next)
            /\ syCache' =
                  IF syImpl = "StateManager"
                  THEN [syCache EXCEPT ![<<t, id>>] =
                           [known |-> TRUE, value |-> TRUE, rels |-> rels]]
                  ELSE cacheEntity(sySchema, syCache, t, id, rels).cache
    /\ syMaps' = syMaps \cup {t}
    /\ syCalls' = syCalls + 1
    /\ UNCHANGED <<syImpl, sySchema, syEntities, syPhase, syBatch, syWrites,
                   syDb, syQuery>>
    /\ UNCHANGED notSync

StoreInsert ==
    \E t \in SyTypes, id \in SyIds :
        \E rels \in EntityValues(sySchema, t) : StoreSave("insert", t, id, rels)

StoreUpsert ==
    \E t \in SyTypes, id \in SyIds :
        \E rels \in EntityValues(sySchema, t) : StoreSave("upsert", t, id, rels)

(* store.delete(target, id) / store.remove(entity) *)
StoreDelete ==
    \E t \in SyTypes, id \in SyIds :
        /\ syPhase = "open"
        /\ syCalls < MaxStoreCalls
        /\ syChanges' = SetChange(syChanges, t, id,
                                  StoreTracker("delete", ChangeOf(syChanges, t, id)))
        /\ syCache' = [syCache EXCEPT ![<<t, id>>] = EmptyEntity]
        /\ syMaps' = syMaps \cup {t}
        /\ syCalls' = syCalls + 1
        /\ UNCHANGED <<syImpl, sySchema, syEntities, syPhase, syBatch, syWrites,
                       syDb, syQuery>>
        /\ UNCHANGED notSync

(* a read that does not write the pending changes first *)
PendingWrites_none == <<>>

(* the list of writes the store hands over for its pending changes;
   performUpdate returns at once when its stateMap is empty *)
PendingWrites ==
    IF syImpl = "StateManager"
    THEN IF syMaps = {} THEN <<>>
         ELSE performUpdate(sySchema, syEntities, syChanges, syCache)
    ELSE commit(sySchema, syEntities, syChanges, syCache)

(* the pending changes are handed to the writer, and the records cleared
   once it has returned; a write the database refuses is thrown through
   performUpdate / commit, before the records are cleared *)
Flush ==
    /\ syPhase = "open"
    /\ syWrites' = PendingWrites
    /\ syBatch' = syChanges
    /\ syChanges' = IF ApplyWrites(PendingWrites, syDb).error THEN syChanges ELSE <<>>
    /\ syMaps' = IF ApplyWrites(PendingWrites, syDb).error THEN syMaps ELSE {}
    /\ syPhase' = "written"
    /\ syDb' = ApplyWrites(PendingWrites, syDb).rows
    /\ syQuery' = [kind |-> "flush", error |-> ApplyWrites(PendingWrites, syDb).error]
    /\ UNCHANGED <<syImpl, sySchema, syEntities, syCache, syCalls>>
    /\ UNCHANGED notSync

(* the rows of a type a find returns go to the cache without their
   relations, which were not loaded *)
cacheFound(schema, cache, t, rows) ==
    [e \in SyIdentities |->
        IF e[1] = t /\ e \in rows
        THEN cacheEntity(schema, cache, t, e[2],
                         [k \in 1 .. Len(schema[t]) |-> "undefined"]).cache[e]
        ELSE cache[e]]

(* StoreWithCache.find / findOne / count: commit(), then the query, whose
   rows are added to the cache.  A write the database refuses is thrown to
   the caller and ends the transaction *)
StoreFind ==
    \E t \in SyTypes :
        /\ syPhase = "open"
        /\ syImpl = "StoreWithCache"
        /\ syCalls < MaxStoreCalls
        /\ syCalls' = syCalls + 1
        /\ syWrites' = PendingWrites
        /\ syBatch' = syChanges
        /\ LET done == ApplyWrites(PendingWrites, syDb) IN
           IF done.error
           THEN /\ syPhase' = "failed"
                /\ syQuery' = [kind |-> "commit", error |-> TRUE]
                /\ UNCHANGED <<syChanges, syMaps, syDb, syCache>>
           ELSE /\ syPhase' = syPhase
                /\ syChanges' = <<>>
                /\ syMaps' = {}
                /\ syDb' = done.rows
                /\ syQuery' = [kind |-> "find", error |-> FALSE, type |-> t,
                               tracker |-> syChanges', rows |-> done.rows]
                /\ syCache' = cacheFound(sySchema, syCache, t, done.rows)
        /\ UNCHANGED <<syImpl, sySchema, syEntities>>
        /\ UNCHANGED notSync

NextSync == StoreInsert \/ StoreUpsert \/ StoreDelete \/ StoreFind \/ Flush

SpecSync == InitSync /\ [][NextSync]_vars

(* positions in the handed-over list *)
WritesOf(t, id) ==
    {i \in DOMAIN syWrites :
        /\ syWrites[i].type = t /\ syWrites[i].id = id
        /\ syWrites[i].op \in {"insert", "upsert"}}

Carrying(t, id, k, v) == {i \in WritesOf(t, id) : syWrites[i].rels[k] = v}

PendingSave(t, id) == ChangeOf(syBatch, t, id) \in {"Insert", "Upsert"}

(* C1 as stated: in the list handed to the database writer, for every entity
   X pending Insert or Upsert whose foreign-key relation points to an entity
   Y of another type that is pending Insert or Upsert in the same batch,
   every write of X that carries the relation comes after a write of Y. *)
C1_AsStated ==
    syPhase = "written" =>
        \A x \in SyIdentities :
            \A k \in DOMAIN sySchema[x[1]] :
                LET relation == sySchema[x[1]][k]
                    v == syCache[x].rels[k]
                IN  (/\ PendingSave(x[1], x[2])
                     /\ relation.fk
                     /\ relation.target # x[1]
                     /\ v # "null"
                     /\ PendingSave(relation.target, v))
                    => \A i \in Carrying(x[1], x[2], k, v) :
                           \E j \in WritesOf(relation.target, v) : j < i

PendingInsert(t, id) == ChangeOf(syBatch, t, id) = "Insert"

(* C17 as stated: when two rows X and Y of one entity type are inserted in
   the same batch and a self-referencing relation of X points to Y, the sync
   succeeds and Y's row is written before any write of X that carries the
   relation to Y. *)
C17_AsStated ==
    syPhase \in {"written", "failed"} =>
        \A x \in SyIdentities :
            \A k \in DOMAIN sySchema[x[1]] :
                LET relation == sySchema[x[1]][k]
                    v == syCache[x].rels[k]
                IN  (/\ PendingInsert(x[1], x[2])
                     /\ relation.fk
                     /\ relation.target = x[1]
                     /\ v \in SyIds \ {x[2]}
                     /\ PendingInsert(x[1], v))
                    => /\ syPhase = "written"
                       /\ \A i \in Carrying(x[1], x[2], k, v) :
                             \E j \in WritesOf(x[1], v) : j < i

(* write i of the handed-over list lacks relation k of the cached entity *)
Stripped(i, k) ==
    /\ syWrites[i].op \in {"insert", "upsert"}
    /\ k \in DOMAIN syWrites[i].rels
    /\ syWrites[i].rels[k] # syCache[<<syWrites[i].type, syWrites[i].id>>].rels[k]

(* C25 as stated: during a sync a row is written with one of its foreign-key
   relations stripped only if that relation is nullable; a non-nullable
   relation is never stripped from an insert or upsert. *)
C25_AsStated ==
    syPhase = "written" =>
        \A i \in DOMAIN syWrites :
            \A k \in DOMAIN sySchema[syWrites[i].type] :
                Stripped(i, k) => sySchema[syWrites[i].type][k].nullable

(* write j is an extra upsert: an upsert of an identity written before with
   a relation stripped, carrying every cached relation value *)
ExtraUpsert(j) ==
    /\ syWrites[j].op = "upsert"
    /\ syWrites[j].rels = syCache[<<syWrites[j].type, syWrites[j].id>>].rels
    /\ \E i \in 1 .. j - 1 :
          /\ syWrites[i].type = syWrites[j].type
          /\ syWrites[i].id = syWrites[j].id
          /\ \E k \in DOMAIN syWrites[i].rels : Stripped(i, k)

(* C26: every entity performUpdate writes with a relation stripped is also
   in an extra upsert, with all its cached relation values, placed after
   every insert, upsert and delete of the batch, so that the last write of
   the row carries the relation. *)
C26_ExtraUpsertLast ==
    syPhase = "written" =>
        \A i \in DOMAIN syWrites :
            (\E k \in DOMAIN syWrites[i].rels : Stripped(i, k)) =>
                \E j \in i + 1 .. Len(syWrites) :
                    /\ syWrites[j].type = syWrites[i].type
                    /\ syWrites[j].id = syWrites[i].id
                    /\ \A m \in j .. Len(syWrites) : ExtraUpsert(m)

(* a batch in which a row was inserted without its relation and the extra
   upsert is the last write *)
C26_Witness ==
    /\ syPhase = "written"
    /\ syImpl = "StateManager"
    /\ \E i \in DOMAIN syWrites :
          /\ syWrites[i].op = "insert"
          /\ \E k \in DOMAIN syWrites[i].rels : Stripped(i, k)
    /\ ExtraUpsert(Len(syWrites))

(* the inserts of a type in the handed-over list *)
InsertsOf(t) ==
    {i \in DOMAIN syWrites : syWrites[i].type = t /\ syWrites[i].op = "insert"}

(* a relation of the cached entity to its own type points to an identity
   that is pending Insert *)
PointsAtInsert(t, id) ==
    \E k \in DOMAIN sySchema[t] :
        /\ sySchema[t][k].target = t
        /\ syCache[<<t, id>>].rels[k] \in SyIds
        /\ PendingInsert(t, syCache[<<t, id>>].rels[k])

(* C27: within the commit of one entity type, a pending Upsert whose
   self-referencing relation points to an identity pending Insert of the
   same type is written after all inserts of the type, every other pending
   Upsert of the type is written before them, and each pending identity is
   written exactly once. *)
C27_DelayedUpserts ==
    (syPhase = "written" /\ syImpl = "StoreWithCache") =>
        \A n \in DOMAIN syBatch :
            LET t == syBatch[n].type
                id == syBatch[n].id
                written == {i \in DOMAIN syWrites :
                               syWrites[i].type = t /\ syWrites[i].id = id}
            IN  /\ Cardinality(written) = 1
                /\ syBatch[n].change = "Upsert" =>
                      \A i \in written, j \in InsertsOf(t) :
                          IF PointsAtInsert(t, id) THEN j < i ELSE i < j

(* an upsert pointing at a row of its own type that is inserted in the same
   commit *)
C27_Witness ==
    /\ syPhase = "written"
    /\ syImpl = "StoreWithCache"
    /\ \E n \in DOMAIN syBatch :
          /\ syBatch[n].change = "Upsert"
          /\ PointsAtInsert(syBatch[n].type, syBatch[n].id)
          /\ InsertsOf(syBatch[n].type) # {}

(* the positions of the deletes of type t in the handed-over list *)
DeletesOf(t) == {i \in DOMAIN syWrites : syWrites[i].op = "delete" /\ syWrites[i].type = t}

(* C37 as stated: when several entity types have pending deletes in one
   sync, the rows of a type that holds a foreign key to another type are
   deleted before the rows of the referenced type, and all deletes are
   issued after the inserts and upserts of the batch. *)
C37_AsStated ==
    syPhase = "written" =>
        /\ \A a \in SyTypes, b \in SyTypes :
              (FkEdge(sySchema, a, b) /\ ~FkEdge(sySchema, b, a)) =>
                  \A i \in DeletesOf(a), j \in DeletesOf(b) : i < j
        /\ \A i \in DOMAIN syWrites, j \in DOMAIN syWrites :
              (syWrites[i].op = "delete" /\ syWrites[j].op \in {"insert", "upsert"})
                  => j < i

(* C11: a find / findOne / count issues its query only after every change
   pending at the time of the call has been written: when the query is
   issued the change tracker holds no record, every identity that was
   pending Insert or Upsert is a row the query sees, and no identity that
   was pending Delete is. *)
C11_QueryAfterWrites ==
    syQuery.kind = "find" =>
        /\ syQuery.tracker = <<>>
        /\ \A k \in DOMAIN syBatch :
              LET row == <<syBatch[k].type, syBatch[k].id>> IN
              /\ syBatch[k].change \in {"Insert", "Upsert"} => row \in syQuery.rows
              /\ syBatch[k].change = "Delete" => row \notin syQuery.rows

(* a find issued while a row the database held was pending Delete *)
C11_Witness ==
    /\ syQuery.kind = "find"
    /\ \E k \in DOMAIN syBatch :
          /\ syBatch[k].change = "Delete"
          /\ <<syBatch[k].type, syBatch[k].id>> \in {<<"A", "1">>, <<"B", "1">>}
    /\ syDb # {<<"A", "1">>, <<"B", "1">>}

----------------------------------------------------------------------------
(* SpecCache: entities of two types, each with one owning relation r to the
   other type, are inserted, upserted and deleted, and read back from the
   cache with a relation mask: StateManager.get over utils/cacheMap.ts,
   StoreWithCache.getCached over cacheMap.ts, and the earlier
   StoreWithCache.getCachedEntity over its own cache *)

CacheImpls == {"StateManager", "StoreWithCache", "StoreWithCache0"}

CacheSchema ==
    [A |-> <<[target |-> "B", fk |-> TRUE, nullable |-> TRUE]>>,
     B |-> <<[target |-> "A", fk |-> TRUE, nullable |-> TRUE]>>,
     C |-> <<>>]

(* the value of relation r on an entity handed to the store *)
SourceValues == SyIds \cup {"null", "undefined"}

(* relation masks: {}, {r: true}, {r: {r: true}} by their depth *)
MaskDepths == 0 .. 2

Unpopulated(schema, t) == [k \in 1 .. Len(schema[t]) |-> "undefined"]

(* CacheMap.add that caches the entity and leaves its relations alone *)
CacheMap_add_columnsOnly(schema, cache, t, id, source, override, nullify) ==
    [cache EXCEPT ![<<t, id>>] =
        [known |-> TRUE, value |-> TRUE,
         rels |-> IF cache[<<t, id>>].value THEN cache[<<t, id>>].rels
                  ELSE Unpopulated(schema, t)]]

(* CacheMap.add of utils/cacheMap.ts: relations are kept as id-only mocks *)
CacheMap_add(schema, cache, t, id, source, override, nullify) ==
    LET rels0 == IF cache[<<t, id>>].value THEN cache[<<t, id>>].rels
                 ELSE Unpopulated(schema, t)
        set(k) ==
            IF ~schema[t][k].fk THEN rels0[k]
            ELSE IF ~override /\ rels0[k] # "undefined" THEN rels0[k]
            ELSE IF ~nullify /\ source[k] = "undefined" THEN rels0[k]
            ELSE IF source[k] \in {"null", "undefined"} THEN "null"
            ELSE source[k]
    IN  [cache EXCEPT ![<<t, id>>] =
            [known |-> TRUE, value |-> TRUE,
             rels |-> [k \in 1 .. Len(schema[t]) |-> set(k)]]]

(* StoreWithCache.cache (earlier store): a masked owning relation is set to
   the cached related entity, which is cached on the way when it is not *)
RECURSIVE P0_cacheRelations(_, _, _, _, _, _, _)
P0_cacheRelations(schema, cache, t, id, source, mask, k) ==
    IF k > Len(schema[t]) THEN cache
    ELSE IF ~mask[k] \/ ~schema[t][k].fk
    THEN P0_cacheRelations(schema, cache, t, id, source, mask, k + 1)
    ELSE IF source[k] \in {"null", "undefined"}
    THEN P0_cacheRelations(schema, [cache EXCEPT ![<<t, id>>].rels[k] = "null"],
                           t, id, source, mask, k + 1)
    ELSE LET target == <<schema[t][k].target, source[k]>>
             cache1 == IF cache[target].value THEN cache
                       ELSE [cache EXCEPT ![target] =
                                [known |-> TRUE, value |-> TRUE,
                                 rels |-> Unpopulated(schema, target[1])]]
         IN  P0_cacheRelations(schema,
                               [cache1 EXCEPT ![<<t, id>>].rels[k] = source[k]],
                               t, id, source, mask, k + 1)

P0_cache(schema, cache, t, id, source, mask) ==
    LET cache1 == IF cache[<<t, id>>].value THEN cache
                  ELSE [cache EXCEPT ![<<t, id>>] =
                           [known |-> TRUE, value |-> TRUE,
                            rels |-> Unpopulated(schema, t)]]
    IN  P0_cacheRelations(schema, cache1, t, id, source, mask, 1)

(* what a cache read returns *)
Indeterminate == [kind |-> "undefined"]
NullEntity == [kind |-> "null"]
Thrown == [kind |-> "throw"]
Unmasked == [kind |-> "unmasked"]
Cloned(id, r) == [kind |-> "entity", id |-> id, r |-> r]

(* StateManager.get(target, id, relationMask) *)
RECURSIVE SM_get(_, _, _, _)
SM_get(cache, t, id, depth) ==
    IF ~cache[<<t, id>>].known THEN Indeterminate
    ELSE IF ~cache[<<t, id>>].value THEN NullEntity
    ELSE IF depth = 0 THEN Cloned(id, Unmasked)
    ELSE LET inverseEntityMock == cache[<<t, id>>].rels[1] IN
         IF inverseEntityMock = "null" THEN Cloned(id, NullEntity)
         ELSE LET cachedInverseEntity ==
                      IF inverseEntityMock = "undefined" THEN Indeterminate
                      ELSE SM_get(cache, CacheSchema[t][1].target,
                                  inverseEntityMock, depth - 1)
              IN  IF cachedInverseEntity.kind = "undefined" THEN Indeterminate
                  ELSE Cloned(id, cachedInverseEntity)

(* StoreWithCache.getCached(entityClass, id, mask) *)
RECURSIVE getCached(_, _, _, _)
getCached(cache, t, id, depth) ==
    IF ~cache[<<t, id>>].known THEN Indeterminate
    ELSE IF ~cache[<<t, id>>].value THEN NullEntity
    ELSE IF depth = 0 THEN Cloned(id, Unmasked)
    ELSE LET relatedEntity == cache[<<t, id>>].rels[1] IN
         IF relatedEntity = "undefined" THEN Indeterminate
         ELSE IF relatedEntity = "null" THEN Cloned(id, NullEntity)
         ELSE LET cachedRelatedEntity ==
                      getCached(cache, CacheSchema[t][1].target, relatedEntity,
                                depth - 1)
              IN  IF cachedRelatedEntity.kind \in {"undefined", "null", "throw"}
                  THEN Thrown
                  ELSE Cloned(id, cachedRelatedEntity)

(* StoreWithCache.getCachedEntity(entityClass, id, mask) of the earlier store *)
RECURSIVE getCachedEntity(_, _, _, _)
getCachedEntity(cache, t, id, depth) ==
    IF ~cache[<<t, id>>].value THEN NullEntity
    ELSE IF depth = 0 THEN Cloned(id, Unmasked)
    ELSE LET relatedEntity == cache[<<t, id>>].rels[1] IN
         IF relatedEntity = "undefined" THEN Indeterminate
         ELSE IF relatedEntity = "null" THEN Cloned(id, NullEntity)
         ELSE LET clonedRelation ==
                      getCachedEntity(cache, CacheSchema[t][1].target,
                                      relatedEntity, depth - 1)
              IN  IF clonedRelation.kind = "undefined" THEN Indeterminate
                  ELSE Cloned(id, clonedRelation)

(* one store call: the pending change of the identity, the cache and the
   outcome of the call *)
CacheStep(pending, cache, outcome) ==
    [pending |-> pending, cache |-> cache, outcome |-> outcome]

(* insert(entity): StateManager.insert, StoreWithCache.insert and the insert
   of the earlier store *)
CacheInsertStep(impl, pending, cache, t, id, source) ==
    LET e == <<t, id>> IN
    CASE impl = "StateManager" ->
            IF SM_insert(pending[e]) = "throw"
            THEN CacheStep(pending, cache, "throw")
            ELSE CacheStep([pending EXCEPT ![e] = SM_insert(pending[e])],
                           CacheMap_add(CacheSchema, cache, t, id, source, TRUE, TRUE),
                           "ok")
      [] impl = "StoreWithCache" ->
            IF UpdateMap_insert(pending[e]) = "throw"
            THEN CacheStep(pending, cache, "throw")
            ELSE LET added == cacheEntity(CacheSchema, cache, t, id, source) IN
                 CacheStep([pending EXCEPT ![e] = UpdateMap_insert(pending[e])],
                           added.cache,
                           IF added.thrown THEN "throw" ELSE "ok")
      [] impl = "StoreWithCache0" ->
            IF pending[e] \in {"Insert", "Upsert"} \/ cache[e].value
            THEN CacheStep(pending, cache, "throw")
            ELSE CacheStep([pending EXCEPT ![e] = "Insert"],
                           P0_cache(CacheSchema, cache, t, id, source,
                                    [k \in 1 .. Len(CacheSchema[t]) |-> TRUE]),
                           "ok")

(* upsert(entity) *)
CacheUpsertStep(impl, pending, cache, t, id, source) ==
    LET e == <<t, id>> IN
    CASE impl = "StateManager" ->
            CacheStep([pending EXCEPT ![e] = SM_upsert(pending[e])],
                      CacheMap_add(CacheSchema, cache, t, id, source, TRUE,
                                   pending[e] = "Delete"),
                      "ok")
      [] impl = "StoreWithCache" ->
            LET added == cacheEntity(CacheSchema, cache, t, id, source) IN
            CacheStep([pending EXCEPT ![e] = UpdateMap_upsert(pending[e])],
                      added.cache,
                      IF added.thrown THEN "throw" ELSE "ok")
      [] impl = "StoreWithCache0" ->
            CacheStep([pending EXCEPT ![e] =
                          IF pending[e] = "Insert" THEN "Insert" ELSE "Upsert"],
                      P0_cache(CacheSchema, cache, t, id, source,
                               [k \in 1 .. Len(CacheSchema[t]) |->
                                   source[k] # "undefined"]),
                      "ok")

(* remove(entityClass, id) *)
CacheDeleteStep(impl, pending, cache, t, id) ==
    LET e == <<t, id>> IN
    CASE impl = "StateManager" ->
            IF pending[e] = "Delete" THEN CacheStep(pending, cache, "ok")
            ELSE CacheStep([pending EXCEPT ![e] = SM_delete(pending[e])],
                           [cache EXCEPT ![e] = EmptyEntity], "ok")
      [] impl = "StoreWithCache" ->
            CacheStep([pending EXCEPT ![e] = UpdateMap_remove(pending[e])],
                      [cache EXCEPT ![e] = EmptyEntity], "ok")
      [] impl = "StoreWithCache0" -> CacheStep(pending, cache, "throw")

(* the cache read of get(entityClass, id, relations) *)
CacheRead(impl, cache, t, id, depth) ==
    CASE impl = "StateManager" -> SM_get(cache, t, id, depth)
      [] impl = "StoreWithCache" -> getCached(cache, t, id, depth)
      [] impl = "StoreWithCache0" -> getCachedEntity(cache, t, id, depth)

CacheCall(op, t, id, source, depth, outcome) ==
    [op |-> op, type |-> t, id |-> id, source |-> source, depth |-> depth,
     outcome |-> outcome]

NoRead == [kind |-> "none"]

InitCache ==
    /\ caImpl \in CacheImpls
    /\ caCache = [e \in SyIdentities |-> NoEntity]
    /\ caPending = [e \in SyIdentities |-> "none"]
    /\ caLog = <<>>
    /\ caResult = NoRead
    /\ caPhase = "open"
    /\ DbIdle /\ TrackerIdle /\ OrderIdle /\ SyncIdle /\ DeferIdle /\ SubmitIdle
    /\ CloseIdle
    /\ AddIdle
    /\ MutexIdle
    /\ ManagerIdle

CacheWrite(op, t, id, source, step) ==
    /\ caPending' = step.pending
    /\ caCache' = step.cache
    /\ caLog' = Append(caLog, CacheCall(op, t, id, source, 0, step.outcome))
    /\ caResult' = NoRead
    /\ UNCHANGED <<caImpl, caPhase>>
    /\ UNCHANGED notCache

CacheInsert ==
    /\ caPhase = "open"
    /\ Len(caLog) < MaxCacheCalls
    /\ \E e \in SyIdentities, source \in SourceValues :
          CacheWrite("insert", e[1], e[2], <<source>>,
                     CacheInsertStep(caImpl, caPending, caCache, e[1], e[2],
                                     <<source>>))

CacheUpsert ==
    /\ caPhase = "open"
    /\ Len(caLog) < MaxCacheCalls
    /\ \E e \in SyIdentities, source \in SourceValues :
          CacheWrite("upsert", e[1], e[2], <<source>>,
                     CacheUpsertStep(caImpl, caPending, caCache, e[1], e[2],
                                     <<source>>))

CacheDelete ==
    /\ caPhase = "open"
    /\ Len(caLog) < MaxCacheCalls
    /\ \E e \in SyIdentities :
          CacheWrite("delete", e[1], e[2], <<"undefined">>,
                     CacheDeleteStep(caImpl, caPending, caCache, e[1], e[2]))

(* get(): an undefined cache read of either store goes on to findOne, a read
   of the database *)
CacheGet ==
    /\ caPhase = "open"
    /\ Len(caLog) < MaxCacheCalls
    /\ \E e \in SyIdentities, depth \in MaskDepths :
          LET read == CacheRead(caImpl, caCache, e[1], e[2], depth) IN
          /\ caResult' = read
          /\ caLog' = Append(caLog,
                             CacheCall("get", e[1], e[2], <<"undefined">>, depth,
                                       IF read.kind = "throw" THEN "throw" ELSE "ok"))
          /\ caPhase' = IF read.kind = "undefined" /\ caImpl # "StateManager"
                        THEN "db" ELSE "open"
          /\ UNCHANGED <<caImpl, caCache, caPending>>
          /\ UNCHANGED notCache

NextCache == CacheInsert \/ CacheUpsert \/ CacheDelete \/ CacheGet

SpecCache == InitCache /\ [][NextCache]_vars

----------------------------------------------------------------------------
(* CacheMap.add applied to cache states: entities with one column and one
   owning relation are added, added again with the same arguments, and
   deleted *)

AddImpls == {"CacheMap.add", "CacheMap.cacheEntity"}

(* the value of the column on an entity, cached or handed to add *)
ColumnValues == {"undefined", "null", "x", "y"}

(* CacheMap.add of utils/cacheMap.ts, the loop over the columns, that copies
   the source value as it is *)
CacheMap_addColumn_raw(cachedColumnValue, objectColumnValue, override, nullify) ==
    IF ~override /\ cachedColumnValue # "undefined" THEN cachedColumnValue
    ELSE IF ~nullify /\ objectColumnValue = "undefined" THEN cachedColumnValue
    ELSE objectColumnValue

(* CacheMap.add of utils/cacheMap.ts, the loop over the columns *)
CacheMap_addColumn(cachedColumnValue, objectColumnValue, override, nullify) ==
    IF ~override /\ cachedColumnValue # "undefined" THEN cachedColumnValue
    ELSE IF ~nullify /\ objectColumnValue = "undefined" THEN cachedColumnValue
    ELSE IF objectColumnValue = cachedColumnValue /\ objectColumnValue # "undefined"
    THEN cachedColumnValue
    ELSE IF objectColumnValue = "undefined" THEN "null"
    ELSE objectColumnValue

(* CacheMap.cacheColumns of cacheMap.ts *)
cacheColumns(cachedColumnValue, objectColumnValue) ==
    IF objectColumnValue # "undefined" THEN objectColumnValue
    ELSE cachedColumnValue

AddArgs(t, id, source, column, override, nullify) ==
    [type |-> t, id |-> id, source |-> source, column |-> column,
     override |-> override, nullify |-> nullify]

CacheState(cache, columns) == [cache |-> cache, columns |-> columns]

(* add(metadata, entity, opts) / add(entity): the entry and its value are
   created when missing, then the columns and the relations are cached *)
CacheAdd(impl, cache, columns, a) ==
    LET e == <<a.type, a.id>>
        column0 == IF cache[e].value THEN columns[e] ELSE "undefined"
    IN  CASE impl = "CacheMap.add" ->
                CacheState(CacheMap_add(CacheSchema, cache, a.type, a.id,
                                      <<a.source>>, a.override, a.nullify),
                         [columns EXCEPT ![e] =
                             CacheMap_addColumn(column0, a.column, a.override,
                                                a.nullify)])
          [] impl = "CacheMap.cacheEntity" ->
                CacheState(cacheEntity(CacheSchema, cache, a.type, a.id,
                                     <<a.source>>).cache,
                         [columns EXCEPT ![e] = cacheColumns(column0, a.column)])

InitAdd ==
    /\ adImpl \in AddImpls
    /\ adCache = [e \in SyIdentities |-> NoEntity]
    /\ adColumns = [e \in SyIdentities |-> "undefined"]
    /\ adLast = NoAdd
    /\ adBefore = CacheState(adCache, adColumns)
    /\ adOnce = CacheState(adCache, adColumns)
    /\ adRepeated = FALSE
    /\ adCalls = 0
    /\ DbIdle /\ TrackerIdle /\ OrderIdle /\ SyncIdle /\ CacheIdle /\ DeferIdle
    /\ SubmitIdle /\ CloseIdle
    /\ MutexIdle
    /\ ManagerIdle

(* add(entity) with any options; cacheEntity takes no options *)
AddEntity ==
    /\ adCalls < MaxAdds
    /\ \E e \in SyIdentities, source \in SourceValues, column \in ColumnValues,
          override \in BOOLEAN, nullify \in BOOLEAN :
          /\ adImpl = "CacheMap.cacheEntity" => ~override /\ ~nullify
          /\ LET a == AddArgs(e[1], e[2], source, column, override, nullify)
                 added == CacheAdd(adImpl, adCache, adColumns, a)
             IN  /\ adCache' = added.cache
                 /\ adColumns' = added.columns
                 /\ adLast' = a
                 /\ adOnce' = added
    /\ adBefore' = CacheState(adCache, adColumns)
    /\ adRepeated' = FALSE
    /\ adCalls' = adCalls + 1
    /\ UNCHANGED adImpl
    /\ UNCHANGED notAdd

(* the same entity added again with the same options *)
AddAgain ==
    /\ adLast # NoAdd
    /\ ~adRepeated
    /\ LET added == CacheAdd(adImpl, adCache, adColumns, adLast) IN
       /\ adCache' = added.cache
       /\ adColumns' = added.columns
    /\ adBefore' = CacheState(adCache, adColumns)
    /\ adRepeated' = TRUE
    /\ UNCHANGED <<adImpl, adLast, adOnce, adCalls>>
    /\ UNCHANGED notAdd

(* delete(metadata, id): the entry is replaced by an empty one *)
AddDelete ==
    /\ adCalls < MaxAdds
    /\ \E e \in SyIdentities :
          /\ adCache[e] # EmptyEntity
          /\ adCache' = [adCache EXCEPT ![e] = EmptyEntity]
          /\ adColumns' = [adColumns EXCEPT ![e] = "undefined"]
    /\ adLast' = NoAdd
    /\ adBefore' = CacheState(adCache, adColumns)
    /\ adRepeated' = FALSE
    /\ adCalls' = adCalls + 1
    /\ UNCHANGED <<adImpl, adOnce>>
    /\ UNCHANGED notAdd

NextAdd == AddEntity \/ AddAgain \/ AddDelete

SpecAdd == InitAdd /\ [][NextAdd]_vars

----------------------------------------------------------------------------
(* The sync lock: callers run sync() on one store at the same time, each
   call bracketed by acquire() and release() of the store's Mutex around
   StateManager.performUpdate, while changes are written to the store *)

Callers == 1 .. MaxCallers
Futures == 1 .. MaxAcquires
Changes == 1 .. MaxChanges

(* acquire() that never waits *)
acquire_noWait(waitQueue, future) ==
    [waitQueue |-> Append(waitQueue, future), awaits |-> 0]

(* Mutex.acquire(): the caller's future is pushed; with others queued, the
   caller awaits the future pushed before its own *)
acquire(waitQueue, future) ==
    LET pushed == Append(waitQueue, future) IN
    [waitQueue |-> pushed,
     awaits |-> IF Len(pushed) > 1 THEN pushed[Len(pushed) - 1] ELSE 0]

(* release() that shifts the oldest future and does not resolve it *)
release_noResolve(waitQueue) ==
    IF waitQueue = <<>> THEN [waitQueue |-> <<>>, resolved |-> {}]
    ELSE [waitQueue |-> Tail(waitQueue), resolved |-> {}]

(* Mutex.release(): the oldest future is shifted and resolved *)
release(waitQueue) ==
    IF waitQueue = <<>> THEN [waitQueue |-> <<>>, resolved |-> {}]
    ELSE [waitQueue |-> Tail(waitQueue), resolved |-> {Head(waitQueue)}]

InitMutex ==
    /\ mxQueue = <<>>
    /\ mxResolved = {}
    /\ mxPc = [c \in Callers |-> "idle"]
    /\ mxWait = [c \in Callers |-> 0]
    /\ mxPending = {}
    /\ mxDelivered = [x \in Changes |-> 0]
    /\ mxFailed = {}
    /\ mxFutures = 0
    /\ mxWrites = 0
    /\ mxStray = 0
    /\ DbIdle /\ TrackerIdle /\ OrderIdle /\ SyncIdle /\ CacheIdle /\ DeferIdle
    /\ SubmitIdle /\ CloseIdle /\ AddIdle
    /\ ManagerIdle

(* store.insert / upsert / delete marks one more change as pending *)
StoreWrite ==
    /\ mxWrites < MaxChanges
    /\ mxWrites' = mxWrites + 1
    /\ mxPending' = mxPending \cup {mxWrites + 1}
    /\ UNCHANGED <<mxQueue, mxResolved, mxPc, mxWait, mxDelivered, mxFailed, mxFutures, mxStray>>
    /\ UNCHANGED notMutex

(* sync(): await mutex.acquire() *)
SyncAcquire(c) ==
    /\ mxPc[c] = "idle"
    /\ mxFutures < MaxAcquires
    /\ LET acquired == acquire(mxQueue, mxFutures + 1) IN
       /\ mxQueue' = acquired.waitQueue
       /\ mxWait' = [mxWait EXCEPT ![c] = acquired.awaits]
    /\ mxFutures' = mxFutures + 1
    /\ mxPc' = [mxPc EXCEPT ![c] = "acquiring"]
    /\ UNCHANGED <<mxResolved, mxPending, mxDelivered, mxFailed, mxWrites, mxStray>>
    /\ UNCHANGED notMutex

(* the awaited future is resolved (or there was none): the caller goes on
   into performUpdate, which returns at once when no change is pending and
   else hands every pending change to cb and awaits it *)
SyncDrain(c) ==
    /\ mxPc[c] = "acquiring"
    /\ mxWait[c] = 0 \/ mxWait[c] \in mxResolved
    /\ mxPc' = [mxPc EXCEPT ![c] = IF mxPending = {} THEN "leaving" ELSE "cb"]
    /\ mxDelivered' = [x \in Changes |->
                          IF x \in mxPending THEN mxDelivered[x] + 1
                          ELSE mxDelivered[x]]
    /\ UNCHANGED <<mxQueue, mxResolved, mxWait, mxPending, mxFailed, mxFutures, mxWrites, mxStray>>
    /\ UNCHANGED notMutex

(* cb returned: stateMap.clear() *)
WriterDone(c) ==
    /\ mxPc[c] = "cb"
    /\ mxPending' = {}
    /\ mxPc' = [mxPc EXCEPT ![c] = "leaving"]
    /\ UNCHANGED <<mxQueue, mxResolved, mxWait, mxDelivered, mxFailed, mxFutures, mxWrites, mxStray>>
    /\ UNCHANGED notMutex

(* cb threw: performUpdate rejects and the changes stay pending *)
WriterFailed(c) ==
    /\ mxPc[c] = "cb"
    /\ mxFailed' = mxFailed \cup mxPending
    /\ mxPc' = [mxPc EXCEPT ![c] = "leaving"]
    /\ UNCHANGED <<mxQueue, mxResolved, mxWait, mxPending, mxDelivered, mxFutures, mxWrites, mxStray>>
    /\ UNCHANGED notMutex

(* sync(): finally mutex.release() *)
SyncRelease(c) ==
    /\ mxPc[c] = "leaving"
    /\ mxQueue' = release(mxQueue).waitQueue
    /\ mxResolved' = mxResolved \cup release(mxQueue).resolved
    /\ mxPc' = [mxPc EXCEPT ![c] = "idle"]
    /\ mxWait' = [mxWait EXCEPT ![c] = 0]
    /\ UNCHANGED <<mxPending, mxDelivered, mxFailed, mxFutures, mxWrites, mxStray>>
    /\ UNCHANGED notMutex

NextMutex ==
    \/ StoreWrite
    \/ \E c \in Callers : SyncAcquire(c)
    \/ \E c \in Callers : SyncDrain(c)
    \/ \E c \in Callers : WriterDone(c)
    \/ \E c \in Callers : WriterFailed(c)
    \/ \E c \in Callers : SyncRelease(c)

SpecMutex == InitMutex /\ [][NextMutex]_vars

(* release() called when no caller holds or awaits the mutex *)
StrayRelease ==
    /\ mxStray < MaxStray
    /\ \A c \in Callers : mxPc[c] = "idle"
    /\ mxQueue' = release(mxQueue).waitQueue
    /\ mxResolved' = mxResolved \cup release(mxQueue).resolved
    /\ mxStray' = mxStray + 1
    /\ UNCHANGED <<mxPc, mxWait, mxPending, mxDelivered, mxFailed, mxFutures, mxWrites>>
    /\ UNCHANGED notMutex

NextMutexLive == NextMutex \/ StrayRelease

(* a caller whose awaited future is resolved is resumed, a writer callback
   settles, and the finally block of sync() runs *)
FairMutex ==
    \A c \in Callers :
        /\ WF_vars(SyncDrain(c))
        /\ WF_vars(WriterDone(c) \/ WriterFailed(c))
        /\ WF_vars(SyncRelease(c))

SpecMutexLive == InitMutex /\ [][NextMutexLive]_vars /\ FairMutex

----------------------------------------------------------------------------
(* One StateManager: insert, upsert, delete, persist, the state queries,
   reset and performUpdate are called in any order.  performUpdate awaits
   its writer callback; the other methods are synchronous and can be called
   while it is suspended *)

ManagerIdentities == SyTypes \X {"1"}
ManagerColumns == {"undefined", "x", "y"}

(* a cache entry: known is FALSE when the identity has none, value is FALSE
   for a CachedEntity whose value is null *)
ManagerEntry(known, value, column) ==
    [known |-> known, value |-> value, column |-> column]

NoAwait == [kind |-> "none"]

ManagerCall(op, e, outcome) == [op |-> op, e |-> e, outcome |-> outcome]

(* CacheMap.settle that replaces the entry it finds *)
settle_always(entry) == ManagerEntry(TRUE, FALSE, "undefined")

(* CacheMap.settle(metadata, id): an empty entry unless there is one *)
settle(entry) ==
    IF entry.known THEN entry ELSE ManagerEntry(TRUE, FALSE, "undefined")

(* CacheMap.add(metadata, entity, opts): the entry and its value are created
   when missing, then the column is cached *)
ManagerAdd(entry, column, override, nullify) ==
    ManagerEntry(TRUE, TRUE,
                 CacheMap_addColumn(IF entry.value THEN entry.column ELSE "undefined",
                                    column, override, nullify))

(* StateManager.isEmpty(): stateMap.size === 0 *)
isEmpty(maps) == maps = {}

(* the assertions of performUpdate: the identity of an Insert or Upsert
   record has a cached value *)
Asserted(records, cache) ==
    \A e \in ManagerIdentities :
        records[e] \in {"Insert", "Upsert"} => cache[e].known /\ cache[e].value

InitManager ==
    /\ mgState = [e \in ManagerIdentities |-> "none"]
    /\ mgMaps = {}
    /\ mgCache = [e \in ManagerIdentities |-> ManagerEntry(FALSE, FALSE, "undefined")]
    /\ mgAwait = NoAwait
    /\ mgDeleted = {}
    /\ mgLast = [op |-> "none"]
    /\ mgCalls = 0
    /\ DbIdle /\ TrackerIdle /\ OrderIdle /\ SyncIdle /\ CacheIdle /\ DeferIdle
    /\ SubmitIdle /\ CloseIdle /\ AddIdle /\ MutexIdle

(* a call made while performUpdate is suspended is noted on the await *)
Touched ==
    IF mgAwait.kind = "cb" THEN [mgAwait EXCEPT !.touched = TRUE] ELSE mgAwait

(* insert(entity): getState creates the Map of the entity type; a record
   that is Insert or Upsert makes the call throw before the cache is reached *)
ManagerInsert ==
    /\ mgCalls < MaxManagerCalls
    /\ \E e \in ManagerIdentities, column \in ManagerColumns :
          LET next == SM_insert(mgState[e]) IN
          /\ mgMaps' = mgMaps \cup {e[1]}
          /\ IF next = "throw"
             THEN /\ UNCHANGED <<mgState, mgCache, mgDeleted>>
                  /\ mgLast' = ManagerCall("insert", e, "throw")
             ELSE /\ mgState' = [mgState EXCEPT ![e] = next]
                  /\ mgCache' = [mgCache EXCEPT ![e] =
                                    ManagerAdd(mgCache[e], column, TRUE, TRUE)]
                  /\ mgDeleted' = mgDeleted \ {e}
                  /\ mgLast' = ManagerCall("insert", e, "ok")
    /\ mgAwait' = Touched
    /\ mgCalls' = mgCalls + 1
    /\ UNCHANGED notManager

(* upsert(entity): nullify is passed only over a Delete record *)
ManagerUpsert ==
    /\ mgCalls < MaxManagerCalls
    /\ \E e \in ManagerIdentities, column \in ManagerColumns :
          /\ mgMaps' = mgMaps \cup {e[1]}
          /\ mgState' = [mgState EXCEPT ![e] = SM_upsert(mgState[e])]
          /\ mgCache' = [mgCache EXCEPT ![e] =
                            ManagerAdd(mgCache[e], column, TRUE, mgState[e] = "Delete")]
          /\ mgDeleted' = mgDeleted \ {e}
          /\ mgLast' = ManagerCall("upsert", e, "ok")
    /\ mgAwait' = Touched
    /\ mgCalls' = mgCalls + 1
    /\ UNCHANGED notManager

(* delete(target, id): over a Delete record nothing is done *)
ManagerDelete ==
    /\ mgCalls < MaxManagerCalls
    /\ \E e \in ManagerIdentities :
          /\ mgMaps' = mgMaps \cup {e[1]}
          /\ IF mgState[e] = "Delete"
             THEN UNCHANGED <<mgState, mgCache>>
             ELSE /\ mgState' = [mgState EXCEPT ![e] = SM_delete(mgState[e])]
                  /\ mgCache' = [mgCache EXCEPT ![e] =
                                    ManagerEntry(TRUE, FALSE, "undefined")]
          /\ mgDeleted' = mgDeleted \cup {e}
          /\ mgLast' = ManagerCall("delete", e, "ok")
    /\ mgAwait' = Touched
    /\ mgCalls' = mgCalls + 1
    /\ UNCHANGED notManager

(* persist(target, entity) with an entity read from the database: the change
   record of the identity is deleted, and the entity is added to the cache
   without options *)
ManagerPersist ==
    /\ mgCalls < MaxManagerCalls
    /\ \E e \in ManagerIdentities, column \in ManagerColumns :
          /\ mgMaps' = mgMaps \cup {e[1]}
          /\ mgState' = [mgState EXCEPT ![e] = "none"]
          /\ mgCache' = [mgCache EXCEPT ![e] =
                            ManagerAdd(mgCache[e], column, FALSE, FALSE)]
          /\ mgLast' = ManagerCall("persist", e, "ok")
    /\ mgAwait' = Touched
    /\ mgCalls' = mgCalls + 1
    /\ UNCHANGED mgDeleted
    /\ UNCHANGED notManager

(* persist(target, id) with the id of a row the database does not hold *)
ManagerSettle ==
    /\ mgCalls < MaxManagerCalls
    /\ \E e \in ManagerIdentities :
          /\ mgCache' = [mgCache EXCEPT ![e] = settle(mgCache[e])]
          /\ mgLast' = ManagerCall("settle", e, "ok")
    /\ mgAwait' = Touched
    /\ mgCalls' = mgCalls + 1
    /\ UNCHANGED <<mgState, mgMaps, mgDeleted>>
    /\ UNCHANGED notManager

(* isInserted / isUpserted / isDeleted(target, id): getState creates the Map
   of the entity type *)
ManagerQuery ==
    /\ mgCalls < MaxManagerCalls
    /\ \E e \in ManagerIdentities :
          /\ mgMaps' = mgMaps \cup {e[1]}
          /\ mgLast' = ManagerCall("query", e, mgState[e])
    /\ mgAwait' = Touched
    /\ mgCalls' = mgCalls + 1
    /\ UNCHANGED <<mgState, mgCache, mgDeleted>>
    /\ UNCHANGED notManager

(* reset(): stateMap.clear() and cacheMap.clear() *)
ManagerReset ==
    /\ mgCalls < MaxManagerCalls
    /\ mgState' = [e \in ManagerIdentities |-> "none"]
    /\ mgMaps' = {}
    /\ mgCache' = [e \in ManagerIdentities |-> ManagerEntry(FALSE, FALSE, "undefined")]
    /\ mgDeleted' = {}
    /\ mgLast' = ManagerCall("reset", <<>>, "ok")
    /\ mgAwait' = Touched
    /\ mgCalls' = mgCalls + 1
    /\ UNCHANGED notManager

(* performUpdate(cb): returns at once when isEmpty(); else the change sets
   are built, which asserts the cached values, and cb is called with them
   and awaited *)
ManagerPerformUpdate ==
    /\ mgCalls < MaxManagerCalls
    /\ mgAwait = NoAwait
    /\ IF isEmpty(mgMaps)
       THEN /\ mgLast' = ManagerCall("performUpdate", <<>>, "empty")
            /\ UNCHANGED mgAwait
       ELSE IF ~Asserted(mgState, mgCache)
       THEN /\ mgLast' = ManagerCall("performUpdate", <<>>, "assert")
            /\ UNCHANGED mgAwait
       ELSE /\ mgLast' = ManagerCall("performUpdate", <<>>, "cb")
            /\ mgAwait' = [kind |-> "cb", changes |-> mgState, touched |-> FALSE]
    /\ mgCalls' = mgCalls + 1
    /\ UNCHANGED <<mgState, mgMaps, mgCache, mgDeleted>>
    /\ UNCHANGED notManager

(* cb resolved: stateMap.clear() *)
ManagerCbReturn ==
    /\ mgAwait.kind = "cb"
    /\ mgState' = [e \in ManagerIdentities |-> "none"]
    /\ mgMaps' = {}
    /\ mgLast' = [op |-> "cbReturn", changes |-> mgAwait.changes,
                  touched |-> mgAwait.touched]
    /\ mgAwait' = NoAwait
    /\ UNCHANGED <<mgCache, mgDeleted, mgCalls>>
    /\ UNCHANGED notManager

(* cb rejected and stateMap.clear() ran all the same *)
ManagerCbThrow_clears ==
    /\ mgAwait.kind = "cb"
    /\ mgState' = [e \in ManagerIdentities |-> "none"]
    /\ mgMaps' = {}
    /\ mgLast' = [op |-> "cbThrow", changes |-> mgAwait.changes,
                  touched |-> mgAwait.touched]
    /\ mgAwait' = NoAwait
    /\ UNCHANGED <<mgCache, mgDeleted, mgCalls>>
    /\ UNCHANGED notManager

(* cb rejected: performUpdate rejects at its await, before stateMap.clear() *)
ManagerCbThrow ==
    /\ mgAwait.kind = "cb"
    /\ mgLast' = [op |-> "cbThrow", changes |-> mgAwait.changes,
                  touched |-> mgAwait.touched]
    /\ mgAwait' = NoAwait
    /\ UNCHANGED <<mgState, mgMaps, mgCache, mgDeleted, mgCalls>>
    /\ UNCHANGED notManager

NextManager ==
    \/ ManagerInsert
    \/ ManagerUpsert
    \/ ManagerDelete
    \/ ManagerPersist
    \/ ManagerSettle
    \/ ManagerQuery
    \/ ManagerReset
    \/ ManagerPerformUpdate
    \/ ManagerCbReturn
    \/ ManagerCbThrow

SpecManager == InitManager /\ [][NextManager]_vars

----------------------------------------------------------------------------
(* SpecDefer: ids of one entity type are deferred on a StoreWithCache that
   holds no pending change, and load() resolves them: every id gets a cache
   entry, the ids are fetched batch by batch, and the rows found are cached *)

DeferIds == 1 .. MaxDeferred

(* splitIntoBatches(list, maxBatchSize): the batches it yields, in order *)
RECURSIVE splitLoop(_, _, _)
splitLoop(list, maxBatchSize, offset) ==
    IF Len(list) - offset > maxBatchSize
    THEN <<SubSeq(list, offset + 1, offset + maxBatchSize)>>
             \o splitLoop(list, maxBatchSize, offset + maxBatchSize)
    ELSE <<SubSeq(list, offset + 1, Len(list))>>

(* splitIntoBatches that yields the list whole *)
splitIntoBatches_whole(list, maxBatchSize) == <<list>>

splitIntoBatches(list, maxBatchSize) ==
    IF Len(list) <= maxBatchSize THEN <<list>>
    ELSE splitLoop(list, maxBatchSize, 0)

(* CacheMap.ensure for every deferred id *)
ensure(cache, ids) ==
    [i \in DOMAIN cache |->
        IF i \in Range(ids) /\ cache[i] = "absent" THEN "null" ELSE cache[i]]

(* find(target, {where: {id: In(batch)}}): the rows the database returns *)
Found(rows, batch) == {i \in Range(batch) : i \in rows}

(* cache.add(res) of every find of the load *)
addFound(cache, rows, batches) ==
    [i \in DOMAIN cache |->
        IF \E b \in DOMAIN batches : i \in Found(rows, batches[b])
        THEN "value" ELSE cache[i]]

InitDefer ==
    /\ dfBatchSize \in 1 .. MaxBatchSize
    /\ dfRows \in SUBSET DeferIds
    /\ dfIds = <<>>
    /\ dfCache = [i \in DeferIds |-> "absent"]
    /\ dfLast = NoLoad
    /\ dfLoads = 0
    /\ DbIdle /\ TrackerIdle /\ OrderIdle /\ SyncIdle /\ CacheIdle /\ SubmitIdle
    /\ CloseIdle
    /\ AddIdle
    /\ MutexIdle
    /\ ManagerIdle

(* defer(entityClass, id): deferData.ids is a Set *)
Defer ==
    /\ dfLoads < MaxLoads
    /\ \E i \in DeferIds :
          /\ dfIds' = IF i \in Range(dfIds) THEN dfIds ELSE Append(dfIds, i)
          /\ UNCHANGED <<dfBatchSize, dfRows, dfCache, dfLast, dfLoads>>
    /\ UNCHANGED notDefer

(* the deferred ids load() leaves behind, with the queue cleared even when a
   find threw *)
deferMapAfter_cleared(ids, thrown) == <<>>

(* the deferred ids load() leaves behind: deferMap.clear() is the statement
   after the loop, so it is not reached when a find throws *)
deferMapAfter(ids, thrown) == IF thrown THEN ids ELSE <<>>

(* load(): ensure, one find per batch that is not empty, deferMap.clear();
   failAt = 0 when every find returns, else the position of the find that
   throws, which ends the load with the finds before it applied *)
Load ==
    /\ dfLoads < MaxLoads
    /\ LET batches == SelectSeq(splitIntoBatches(dfIds, dfBatchSize),
                                LAMBDA b : Len(b) # 0)
       IN  \E failAt \in 0 .. Len(batches) :
              /\ dfCache' = addFound(ensure(dfCache, dfIds), dfRows,
                                IF failAt = 0 THEN batches
                                ELSE SubSeq(batches, 1, failAt - 1))
              /\ dfLast' = [kind |-> IF failAt = 0 THEN "load" ELSE "failed",
                            ids |-> dfIds,
                            queries |-> IF failAt = 0 THEN batches
                                        ELSE SubSeq(batches, 1, failAt),
                            after |-> dfLast.kind]
              /\ dfIds' = deferMapAfter(dfIds, failAt # 0)
    /\ dfLoads' = dfLoads + 1
    /\ UNCHANGED <<dfBatchSize, dfRows>>
    /\ UNCHANGED notDefer

NextDefer == Defer \/ Load

SpecDefer == InitDefer /\ [][NextDefer]_vars

----------------------------------------------------------------------------
(* SpecSubmit: submit(tx) on its own.  Every attempt runs the transaction
   body inside con.transaction, which commits ("ok") or rejects with an
   error: "40001" (serialization failure), "23505" (another database error)
   or "writer" (an error without a database code) *)

TxOutcomes == {"ok", "40001", "23505", "writer"}

InitSubmit ==
    /\ sbConnected \in BOOLEAN
    /\ sbPc = "idle"
    /\ sbRetries = SubmitRetries
    /\ sbLog = <<>>
    /\ sbThrown = "none"
    /\ sbPast = <<>>
    /\ DbIdle /\ TrackerIdle /\ OrderIdle /\ SyncIdle /\ CacheIdle /\ DeferIdle
    /\ CloseIdle
    /\ AddIdle
    /\ MutexIdle
    /\ ManagerIdle

(* submit(tx) is called: let retries = 3 *)
Submit ==
    /\ sbPc \in {"idle", "returned", "thrown"}
    /\ Len(sbPast) + (IF sbPc = "idle" THEN 0 ELSE 1) < MaxSubmits
    /\ sbPast' = IF sbPc = "idle" THEN sbPast
                 ELSE Append(sbPast, [attempts |-> Len(sbLog), thrown |-> sbThrown])
    /\ sbPc' = "try"
    /\ sbRetries' = SubmitRetries
    /\ sbLog' = <<>>
    /\ sbThrown' = "none"
    /\ UNCHANGED sbConnected
    /\ UNCHANGED notSubmit

(* one pass of the while loop: assert(con != null), con.transaction(tx), and
   the catch block *)
Attempt ==
    /\ sbPc = "try"
    /\ \E outcome \in TxOutcomes :
          LET e == IF sbConnected THEN outcome ELSE "not connected" IN
          /\ sbLog' = Append(sbLog, e)
          /\ IF e = "ok"
             THEN /\ sbPc' = "returned"
                  /\ UNCHANGED <<sbRetries, sbThrown>>
             ELSE IF shouldRetry(e, sbRetries)
             THEN /\ sbRetries' = sbRetries - 1
                  /\ UNCHANGED <<sbPc, sbThrown>>
             ELSE /\ sbPc' = "thrown"
                  /\ sbThrown' = e
                  /\ UNCHANGED sbRetries
    /\ UNCHANGED <<sbConnected, sbPast>>
    /\ UNCHANGED notSubmit

NextSubmit == Submit \/ Attempt

(* con.transaction settles: an attempt that was started finishes *)
SpecSubmit == InitSubmit /\ [][NextSubmit]_vars /\ WF_vars(Attempt)

----------------------------------------------------------------------------
(* SpecClose: performUpdates creates a Store and awaits cb(store).  The
   callback, and anything it started without awaiting it, operates on the
   Store: a write reaches the change tracker and the cache, a find reaches
   the database.  TypeormDatabase.performUpdates flushes the Store after the
   callback returned and sets isClosed in its finally block;
   TypeormDatabaseWithCache.performUpdates sets running = false in its finally
   block, and the em() the StoreWithCache calls first in every operation
   asserts running *)

CloseImpls == {"TypeormDatabase", "TypeormDatabaseWithCache"}

StoreOps == {"insert", "upsert", "remove", "find"}

(* an em() without the assert *)
em_unchecked(running) == TRUE

(* em(): assert(running, 'too late to perform db updates ...'); TRUE when the
   EntityManager is returned *)
em(running) == running

(* the check of isClosed at the start of every operation of the Store *)
assertNotClosed(isClosed) == ~isClosed

StoreAccepts(impl, closed) ==
    IF impl = "TypeormDatabase" THEN assertNotClosed(closed) ELSE em(~closed)

InitClose ==
    /\ clImpl \in CloseImpls
    /\ clPhase = "callback"
    /\ clClosed = FALSE
    /\ clPending = {}
    /\ clQueries = 0
    /\ clLast = NoOp
    /\ clOps = 0
    /\ DbIdle /\ TrackerIdle /\ OrderIdle /\ SyncIdle /\ CacheIdle /\ DeferIdle
    /\ SubmitIdle
    /\ AddIdle
    /\ MutexIdle
    /\ ManagerIdle

(* an operation on the Store, during the callback or after it *)
StoreOp ==
    /\ clOps < MaxStoreOps
    /\ clOps' = clOps + 1
    /\ \E op \in StoreOps, e \in SyIdentities :
          IF StoreAccepts(clImpl, clClosed)
          THEN /\ clPending' = IF op = "find" THEN {} ELSE clPending \cup {e}
               /\ clQueries' = IF op = "find" THEN clQueries + 1 ELSE clQueries
               /\ clLast' = [op |-> op, phase |-> clPhase, outcome |-> "ok"]
          ELSE /\ clLast' = [op |-> op, phase |-> clPhase, outcome |-> "error"]
               /\ UNCHANGED <<clPending, clQueries>>
    /\ UNCHANGED <<clImpl, clPhase, clClosed>>
    /\ UNCHANGED notClose

(* cb(store) resolves: TypeormDatabase goes on to store.flush() / store.sync(),
   TypeormDatabaseWithCache reaches finally *)
CallbackReturned ==
    /\ clPhase = "callback"
    /\ IF clImpl = "TypeormDatabase"
       THEN /\ clPhase' = "flushing"
            /\ UNCHANGED clClosed
       ELSE /\ clPhase' = "done"
            /\ clClosed' = TRUE
    /\ UNCHANGED <<clImpl, clPending, clQueries, clLast, clOps>>
    /\ UNCHANGED notClose

(* cb(store) rejects: finally *)
CallbackThrew ==
    /\ clPhase = "callback"
    /\ clPhase' = "done"
    /\ clClosed' = TRUE
    /\ UNCHANGED <<clImpl, clPending, clQueries, clLast, clOps>>
    /\ UNCHANGED notClose

(* store.flush() / store.sync() settles, with the changes written or with an
   error: finally *)
FlushSettled ==
    /\ clPhase = "flushing"
    /\ clPhase' = "done"
    /\ clClosed' = TRUE
    /\ \E written \in BOOLEAN :
          clPending' = IF written THEN {} ELSE clPending
    /\ UNCHANGED <<clImpl, clQueries, clLast, clOps>>
    /\ UNCHANGED notClose

NextClose == StoreOp \/ CallbackReturned \/ CallbackThrew \/ FlushSettled

SpecClose == InitClose /\ [][NextClose]_vars

----------------------------------------------------------------------------
(* Properties of the cache reads *)

LastCalls(n) == SubSeq(caLog, Len(caLog) - n + 1, Len(caLog))

(* the last three calls inserted y, inserted x with r pointing to y, and
   read x with the mask {r: true} *)
InsertedThenRead(x, y) ==
    /\ Len(caLog) >= 3
    /\ LET recent == LastCalls(3) IN
       /\ recent[1].op = "insert" /\ recent[1].outcome = "ok"
       /\ <<recent[1].type, recent[1].id>> = y
       /\ recent[2].op = "insert" /\ recent[2].outcome = "ok"
       /\ <<recent[2].type, recent[2].id>> = x
       /\ CacheSchema[x[1]][1].target = y[1]
       /\ recent[2].source = <<y[2]>>
       /\ recent[3].op = "get" /\ recent[3].depth = 1
       /\ <<recent[3].type, recent[3].id>> = x

(* C12: after insert(Y) and insert(X) with X.r = Y and no flush in between,
   get(X, {r: true}) returns X with Y under r, from the cache, with no read
   of the database *)
C12_FromCache ==
    \A x \in SyIdentities, y \in SyIdentities :
        InsertedThenRead(x, y) =>
            /\ caResult = Cloned(x[2], Cloned(y[2], Unmasked))
            /\ caPhase = "open"

C12_Witness ==
    /\ InsertedThenRead(<<"A", "1">>, <<"B", "2">>)
    /\ caResult.kind = "entity"
    /\ caResult.r.kind = "entity"
    /\ caResult.r.id = "2"

(* a masked relation of the cached entity, at some depth of the mask, is
   unpopulated or points to an identity that has no cache entry *)
RECURSIVE MissingRelation(_, _, _, _)
MissingRelation(cache, t, id, depth) ==
    /\ depth > 0
    /\ cache[<<t, id>>].value
    /\ LET r == cache[<<t, id>>].rels[1] IN
       \/ r = "undefined"
       \/ /\ r \in SyIds
          /\ \/ ~cache[<<CacheSchema[t][1].target, r>>].known
             \/ MissingRelation(cache, CacheSchema[t][1].target, r, depth - 1)

(* C13: a cache read with a relation mask is undefined, never a partial
   object or an exception, when a masked relation at any depth is unpopulated
   or points to an identity absent from the cache; a masked relation that is
   null is returned as null *)
C13_AsStated ==
    (Len(caLog) > 0 /\ caLog[Len(caLog)].op = "get") =>
        LET lastGet == caLog[Len(caLog)] IN
        /\ MissingRelation(caCache, lastGet.type, lastGet.id, lastGet.depth)
              => caResult = Indeterminate
        /\ (/\ lastGet.depth > 0
            /\ caCache[<<lastGet.type, lastGet.id>>].value
            /\ caCache[<<lastGet.type, lastGet.id>>].rels[1] = "null")
              => (caResult.kind = "entity" /\ caResult.r = NullEntity)

(* the step is an insert or upsert of an entity whose owning relation points
   to an identity that has no cache entry *)
AddsDangling ==
    /\ Len(caLog') = Len(caLog) + 1
    /\ LET made == caLog'[Len(caLog')] IN
       /\ made.op \in {"insert", "upsert"}
       /\ made.source[1] \in SyIds
       /\ ~caCache[<<CacheSchema[made.type][1].target, made.source[1]>>].known

(* C21 as stated: the cache add of an entity whose owning relation points to
   an identity that has no cache entry fails with a missing-relation error. *)
C21_AsStated ==
    [][AddsDangling => caLog'[Len(caLog')].outcome = "throw"]_vars

(* the cached entity of identity e has column or relation populated *)
Populated(snapshot, e) ==
    [column |-> snapshot.cache[e].value /\ snapshot.columns[e] # "undefined",
     relation |-> snapshot.cache[e].value /\ snapshot.cache[e].rels # <<>>
                  /\ snapshot.cache[e].rels[1] # "undefined"]

(* C22: cache add is idempotent, adding an entity twice with the same
   options leaves the cache as adding it once did; and an add never turns a
   populated cached column or relation into undefined. *)
C22_Idempotent ==
    /\ adRepeated => CacheState(adCache, adColumns) = adOnce
    /\ adLast # NoAdd =>
          \A e \in SyIdentities :
             LET now == Populated(CacheState(adCache, adColumns), e)
                 before == Populated(adBefore, e)
             IN  /\ before.column => now.column
                 /\ before.relation => now.relation

(* an entity with populated column and relation was added over a cached one
   with other values, and added again *)
C22_Witness ==
    /\ adRepeated
    /\ LET e == <<adLast.type, adLast.id>> IN
       /\ Populated(adBefore, e).column
       /\ Populated(adBefore, e).relation
       /\ adLast.column = "undefined"
       /\ adLast.source = "undefined"

(* the callers inside the critical section *)
Inside == {c \in Callers : mxPc[c] \in {"cb", "leaving"}}

(* C30 as stated: with every critical section bracketed by acquire() and
   release() of the same Mutex, at most one caller is inside the critical
   section at any time; consequently two concurrent syncs guarded by it
   never deliver the same pending change to the writer twice. *)
C30_AsStated ==
    /\ Cardinality(Inside) <= 1
    /\ \A x \in Changes : mxDelivered[x] <= 1

(* C30, amended: at most one caller is inside the critical section at any
   time, and a pending change is delivered to the writer again only after a
   writer call that received it threw. *)
C30_MutualExclusion ==
    /\ Cardinality(Inside) <= 1
    /\ \A x \in Changes : mxDelivered[x] > 1 => x \in mxFailed

(* a caller is inside the critical section while two others wait, after an
   earlier sync delivered a change *)
C30_Witness ==
    /\ Cardinality(Inside) = 1
    /\ Cardinality({c \in Callers : mxPc[c] = "acquiring" /\ mxWait[c] # 0}) = 2
    /\ \E x \in Changes : mxDelivered[x] = 1 /\ x \notin mxPending

(* caller c is granted the lock in this step *)
Granted(c) == mxPc[c] = "acquiring" /\ mxPc'[c] \in {"cb", "leaving"}

(* C39: with callers that each call acquire() and, once granted, release()
   in the end, every caller is granted the lock in the end, and the lock is
   granted in the order in which acquire() was called; release() on a mutex
   nobody holds has no effect. *)
C39_FairLock ==
    /\ \A c \in Callers : (mxPc[c] = "acquiring") ~> (mxPc[c] \in {"cb", "leaving"})
    /\ [][\A c \in Callers :
             Granted(c) =>
                \A d \in Callers \ {c} :
                    mxPc[d] = "acquiring" => mxWait[d] > mxWait[c]]_vars
    /\ [][mxStray' # mxStray =>
             mxQueue' = mxQueue /\ mxResolved' = mxResolved /\ mxPc' = mxPc]_vars

(* the third caller in a row was granted the lock after awaiting the future
   of the second, and release() was called on the free mutex before *)
C39_Witness ==
    /\ mxStray = 1
    /\ Cardinality(mxResolved) >= 2
    /\ \E c \in Callers : mxPc[c] = "cb" /\ mxWait[c] \in mxResolved
    /\ \E d \in Callers : mxPc[d] = "acquiring" /\ mxWait[d] # 0

----------------------------------------------------------------------------
(* Properties of the state manager *)

(* the change records that a returning cb did not receive as they are *)
Undelivered ==
    {e \in ManagerIdentities :
        mgState[e] # "none" /\ mgAwait.changes[e] # mgState[e]}

(* C31 as stated: a change recorded by insert / upsert / delete while
   performUpdate is suspended awaiting its writer callback is not lost: once
   performUpdate completes, the change is among the changes delivered to the
   writer or still pending in the change tracker. *)
C31_AsStated ==
    [][(mgAwait.kind = "cb" /\ mgLast'.op = "cbReturn") =>
          \A e \in Undelivered : mgState'[e] = mgState[e]]_vars

(* C32: in every state reachable through insert, upsert, delete, persist,
   performUpdate and reset, each identity whose pending record is Insert or
   Upsert has a cache entry with a non-null value, so the assertions of
   performUpdate never fail. *)
C32_CachedValues ==
    /\ Asserted(mgState, mgCache)
    /\ ~(mgLast.op = "performUpdate" /\ mgLast.outcome = "assert")

(* performUpdate handed over an upsert and a delete; the deleted identity
   has an empty cache entry *)
C32_Witness ==
    /\ mgAwait.kind = "cb"
    /\ \E e \in ManagerIdentities : mgAwait.changes[e] = "Upsert"
    /\ \E e \in ManagerIdentities :
          /\ mgAwait.changes[e] = "Delete"
          /\ mgCache[e] = ManagerEntry(TRUE, FALSE, "undefined")

(* C33: if the writer callback of performUpdate fails, the pending change
   records and the cache are left as they were, so that a later sync
   delivers the same changes again; the change tracker is cleared only after
   the writer completed successfully (or by reset). *)
C33_FailureKeeps ==
    [][/\ (mgAwait.kind = "cb" /\ mgLast'.op = "cbThrow") =>
              /\ mgState' = mgState /\ mgMaps' = mgMaps /\ mgCache' = mgCache
              /\ ~mgLast'.touched => mgState' = mgLast'.changes
       /\ (mgMaps # {} /\ mgMaps' = {}) => mgLast'.op \in {"cbReturn", "reset"}]_vars

(* the writer callback failed with changes pending that it had received *)
C33_Witness ==
    /\ mgLast.op = "cbThrow"
    /\ ~mgLast.touched
    /\ \E e \in ManagerIdentities : mgLast.changes[e] = "Insert"
    /\ \E e \in ManagerIdentities : mgLast.changes[e] = "Delete"

(* C34 as stated: isEmpty() is true exactly when no identity has a pending
   change record, in every reachable state (also after the state queries
   isInserted / isUpserted / isDeleted on a fresh or drained manager); hence
   performUpdate invokes its writer callback only when at least one change
   is pending. *)
C34_AsStated ==
    /\ isEmpty(mgMaps) <=> \A e \in ManagerIdentities : mgState[e] = "none"
    /\ mgAwait.kind = "cb" => \E e \in ManagerIdentities : mgAwait.changes[e] # "none"

(* a cached column that holds a value *)
PopulatedColumn(entry) == entry.known /\ entry.value /\ entry.column # "undefined"

(* C35 as stated: populating the cache from a database read (persist) never
   discards or alters a pending change record and never changes a column
   that is already populated in the cached value. *)
C35_AsStated ==
    [][mgLast'.op \in {"persist", "settle"} =>
          /\ mgState' = mgState
          /\ \A e \in ManagerIdentities :
                PopulatedColumn(mgCache[e]) => mgCache'[e] = mgCache[e]]_vars

(* C36 as stated: after delete(type, id), and until a later insert / upsert
   of the same identity or a cache reset, a cache read of (type, id) reports
   "known not to exist" (null), so that get returns not-found without a
   database read and never the entity's previous value. *)
C36_AsStated ==
    \A e \in mgDeleted : mgCache[e].known /\ ~mgCache[e].value

----------------------------------------------------------------------------
(* Properties of the defer queue *)

CeilDiv(n, k) == (n + k - 1) \div k

(* C18: resolving N deferred ids with batch size limit K issues exactly
   ceil(N/K) fetch queries, each with at most K ids, together covering every
   id exactly once; afterwards each of the N ids has a cache entry: a value
   if the database returned the row, else null *)
C18_Batches ==
    dfLast.kind = "load" =>
        /\ Len(dfLast.queries) = CeilDiv(Len(dfLast.ids), dfBatchSize)
        /\ \A q \in DOMAIN dfLast.queries : Len(dfLast.queries[q]) <= dfBatchSize
        /\ Flatten(dfLast.queries) = dfLast.ids
        /\ \A i \in Range(dfLast.ids) :
              /\ dfCache[i] # "absent"
              /\ i \in dfRows => dfCache[i] = "value"

C18_Witness ==
    /\ dfLast.kind = "load"
    /\ dfBatchSize = 2
    /\ Len(dfLast.ids) = 3
    /\ Len(dfLast.queries) = 2
    /\ \E i \in Range(dfLast.ids) : dfCache[i] = "null"
    /\ \E i \in Range(dfLast.ids) : dfCache[i] = "value"

(* the ids the finds of the last load fetched: every query it issued but,
   when it failed, the one that threw *)
Fetched ==
    IF dfLast.kind = "failed"
    THEN Range(Flatten(SubSeq(dfLast.queries, 1, Len(dfLast.queries) - 1)))
    ELSE Range(Flatten(dfLast.queries))

(* C40: a load whose every batch fetch succeeds leaves the defer queue empty,
   and a load of an empty queue issues no fetch; after a load in which a batch
   fetch failed the queue still holds every deferred id that was not fetched,
   and the next successful load queries every id of the queue *)
C40_Resolve ==
    [][dfLoads' = dfLoads + 1 =>
          /\ dfLast'.kind = "load" =>
                /\ dfIds' = <<>>
                /\ Range(Flatten(dfLast'.queries)) = Range(dfIds)
          /\ dfIds = <<>> => dfLast'.queries = <<>>
          /\ dfLast'.kind = "failed" =>
                /\ Range(dfLast'.ids) = Range(dfIds)
                /\ Range(dfIds) \ Fetched' \subseteq Range(dfIds')]_vars

(* a load that fetched the first batch and failed on the second was followed
   by one that succeeded and queried all three ids *)
C40_Witness ==
    /\ dfLast.kind = "load"
    /\ dfLast.after = "failed"
    /\ Len(dfLast.ids) = 3
    /\ Len(dfLast.queries) = 2
    /\ dfIds = <<>>

----------------------------------------------------------------------------
(* Properties of submit *)

SubmitBounded ==
    /\ Len(sbLog) <= SubmitRetries + 1
    /\ \A k \in 1 .. Len(sbLog) - 1 : sbLog[k] = "40001"
    /\ sbLog # <<>> =>
          LET last == sbLog[Len(sbLog)] IN
          /\ last = "ok" => sbPc = "returned"
          /\ last \notin {"ok", "40001"} => (sbPc = "thrown" /\ sbThrown = last)
          /\ (last = "40001" /\ Len(sbLog) <= SubmitRetries) => sbPc = "try"
          /\ (last = "40001" /\ Len(sbLog) = SubmitRetries + 1)
                => (sbPc = "thrown" /\ sbThrown = last)

(* C19: a transaction body is attempted at most 4 times (the first attempt
   and 3 retries); it is attempted again only after a failure with code
   40001; any other failure is thrown after the attempt in which it occurs;
   and submit always terminates *)
C19_BoundedRetry ==
    /\ []SubmitBounded
    /\ (sbPc = "try") ~> (sbPc \in {"returned", "thrown"})

(* the fourth attempt failed with 40001 as well and submit threw it *)
C19_Witness ==
    /\ sbPc = "thrown"
    /\ Len(sbLog) = SubmitRetries + 1
    /\ sbThrown = "40001"

----------------------------------------------------------------------------
(* Properties of the closed Store *)

(* the step is an operation on the Store that fails and reaches neither the
   database nor the cache / change tracker *)
Refused ==
    /\ clLast'.outcome = "error"
    /\ UNCHANGED <<clPending, clQueries>>

(* C20 as stated: once the writer callback has completed, whether it returned
   or threw, every later operation on the Store fails with an error and
   reaches neither the database nor the cache / change tracker. *)
C20_AsStated ==
    [][(clOps' # clOps /\ clPhase # "callback") => Refused]_vars

(* C20: once performUpdates has completed (the callback threw, or it returned
   and, for TypeormDatabase, the flush / sync that follows it settled), every
   later operation on the Store fails with an error and reaches neither the
   database nor the cache / change tracker *)
C20_ClosedAfterBlock ==
    [][(clOps' # clOps /\ clPhase = "done") => Refused]_vars

(* an operation was refused after a callback that had left changes pending *)
C20_Witness ==
    /\ clPhase = "done"
    /\ clLast # NoOp
    /\ clLast.phase = "done"
    /\ clLast.outcome = "error"
    /\ clPending # {}

----------------------------------------------------------------------------
(* Properties of the chain transaction manager *)

Finished(p) == pc[p] = "done"
PersistedHead == Block(status.height, status.hash)
ReadHead(p) == Block(state[p].height, state[p].hash)
HasRead(p) == state[p] # NoState
IsTransact(p) == call[p].kind = "transact"
IsHot(p) == call[p].kind = "transactHot"

(* the attempt rolled nothing back, inserted no hot block, ran no writer and
   did not touch the status row *)
CleanAttempt(p) ==
    /\ hist[p].rollbacks = <<>>
    /\ hist[p].hotInserts = <<>>
    /\ hist[p].writerRuns = 0
    /\ ~hist[p].statusUpdated
    /\ tx[p] = NoTx

ValidNext(info) ==
    /\ info.prevHead.height < info.nextHead.height
    /\ info.prevHead.hash # info.nextHead.hash

(* both processors have finished a transact that carried the same prevHead,
   the head persisted when they started, and a nextHead above it *)
RaceCase ==
    /\ \A p \in Procs : Finished(p) /\ IsTransact(p) /\ ValidNext(call[p])
    /\ call[1].prevHead = call[2].prevHead
    /\ call[1].prevHead = Block(InitialHeight, InitialHash)

OneCommitted ==
    \E p \in Procs : \E q \in Others(p) :
        /\ result[p] = "ok"
        /\ result[q] = RACE_MSG
        /\ status = [height |-> call[p].nextHead.height,
                     hash |-> call[p].nextHead.hash, nonce |-> 1]

(* C4 as stated: whenever two concurrent transact calls carry the same
   prevHead (their writer callbacks not throwing), exactly one commits and
   the other fails with the race error, and the status row is advanced once
   with its nonce incremented once. *)
C4_AsStated ==
    (RaceCase /\ \A p \in Procs : result[p] # "writer") => OneCommitted

(* C4, amended: the same, when in addition the database refuses no write of
   either writer (the two do not insert the same row). *)
C4_OneWinner ==
    (RaceCase /\ \A p \in Procs : result[p] \notin {"writer", "db"})
    => OneCommitted

(* processor 2 lost after a serialization failure and a retry *)
C4_Witness ==
    /\ RaceCase
    /\ result[1] = "ok"
    /\ result[2] = RACE_MSG
    /\ retries[2] < SubmitRetries

(* C5: a transact whose prevHead differs in hash or height from the persisted
   status fails, having rolled back no hot block, run no writer and left the
   status row as it was. *)
C5_MismatchFails ==
    \A p \in Procs :
        (IsTransact(p) /\ HasRead(p) /\ pc[p] # "start"
            /\ ReadHead(p) # call[p].prevHead)
        => /\ Finished(p)
           /\ result[p] \in {RACE_MSG, "assert"}
           /\ CleanAttempt(p)
           /\ status = [height |-> state[p].height, hash |-> state[p].hash,
                        nonce |-> state[p].nonce]

(* a transact that failed on the height alone, against a database that holds
   a hot block *)
C5_Witness ==
    \E p \in Procs :
        /\ Finished(p) /\ IsTransact(p)
        /\ state[p].hash = call[p].prevHead.hash
        /\ state[p].height # call[p].prevHead.height
        /\ state[p].top # <<>>
        /\ result[p] = "assert"

(* the heights of the hot blocks getState read *)
HotHeights(p) == {state[p].top[k].height : k \in DOMAIN state[p].top}

(* the hot blocks the call is to roll back *)
ToRollBack(p) ==
    IF IsTransact(p) THEN HotHeights(p)
    ELSE {h \in HotHeights(p) : h > call[p].baseHead.height}

Descending(seq) == \A i \in 1 .. Len(seq) - 1 : seq[i] > seq[i + 1]

(* the attempt has left the rollback loop *)
PastRollback(p) ==
    \/ pc[p] \in {"writer", "hotloop", "finish", "status", "commit"}
    \/ Finished(p) /\ result[p] = "ok"
    \/ hist[p].hotInserts # <<>>
    \/ hist[p].writerRuns > 0

(* C28: transactHot rolls back exactly the existing hot blocks above
   baseHead.height, newest first, before any new block is written, and no
   hot block at or below baseHead; transact rolls back every existing hot
   block, newest first, before the writer runs. *)
C28_Rollbacks ==
    \A p \in Procs :
        (HasRead(p) /\ pc[p] # "start") =>
            /\ Descending(hist[p].rollbacks)
            /\ Range(hist[p].rollbacks) \cap HotHeights(p) \subseteq ToRollBack(p)
            /\ PastRollback(p) =>
                  Range(hist[p].rollbacks) \cap HotHeights(p) = ToRollBack(p)

(* a transactHot that committed after it rolled back the hot blocks above
   baseHead and kept one below *)
C28_Witness ==
    \E p \in Procs :
        /\ IsHot(p) /\ Finished(p) /\ result[p] = "ok"
        /\ hist[p].rollbacks # <<>>
        /\ HotHeights(p) \ ToRollBack(p) # {}
        /\ hist[p].hotInserts # <<>>

(* the indices of newBlocks the writer was invoked for, in order *)
RECURSIVE WriterIndices(_)
WriterIndices(slices) ==
    IF slices = <<>> THEN <<>>
    ELSE [k \in 1 .. Head(slices).end - Head(slices).beg |->
             Head(slices).beg + k - 1] \o WriterIndices(Tail(slices))

(* C29: in a successful transactHot the writer is invoked for every index of
   newBlocks exactly once and in ascending order: the blocks at or below
   finalizedHead in one Store without change tracking, and without a
   hot_block row; each block above finalizedHead in a Store of its own whose
   change tracker is bound to the block's height, after its hot_block row
   was inserted. *)
C29_WriterRuns ==
    \A p \in Procs :
        (IsHot(p) /\ HasRead(p) /\ pc[p] # "start") =>
            LET info == call[p]
                slices == hist[p].slices
                untracked == {k \in DOMAIN slices : slices[k].changes = {}}
                inserted == Range(hist[p].hotInserts)
            IN  /\ Finished(p) /\ result[p] = "ok" =>
                      /\ WriterIndices(slices) =
                            [k \in 1 .. Len(info.newBlocks) |-> k - 1]
                      /\ \A k \in DOMAIN info.newBlocks :
                            info.newBlocks[k].height <= info.finalizedHead.height
                                => info.newBlocks[k] \notin inserted
                /\ Cardinality(untracked) <= 1
                /\ \A k \in DOMAIN slices :
                      \A i \in slices[k].beg .. slices[k].end - 1 :
                          LET b == At0(info.newBlocks, i) IN
                          IF b.height <= info.finalizedHead.height
                          THEN slices[k].changes = {}
                          ELSE /\ slices[k].changes = {b.height}
                               /\ slices[k].end = slices[k].beg + 1
                               /\ b \in inserted

(* a transactHot that committed blocks on both sides of finalizedHead *)
C29_Witness ==
    \E p \in Procs :
        /\ IsHot(p) /\ Finished(p) /\ result[p] = "ok"
        /\ \E k \in DOMAIN hist[p].slices : hist[p].slices[k].changes = {}
        /\ \E k \in DOMAIN hist[p].slices : hist[p].slices[k].changes # {}

(* C38: across any sequence of transact and transactHot calls, the persisted
   status height never decreases, the status row changes only in a call that
   succeeds, and each successful call increases the nonce by exactly 1. *)
C38_StatusRow ==
    [][/\ status' # status =>
              /\ status'.height >= status.height
              /\ \E p \in Procs : pc[p] = "commit" /\ result'[p] = "ok"
       /\ \A p \in Procs :
              (result'[p] = "ok" /\ result[p] # "ok") =>
                  status'.nonce = status.nonce + 1]_vars

(* two calls succeeded, the second one a transactHot that finalized blocks
   above the head the first one left *)
C38_Witness ==
    /\ status.nonce = 2
    /\ status.height = 2
    /\ \E p \in Procs : result[p] = "ok" /\ call[p].kind = "transactHot"

(* C6 as stated: in every persisted state the hot-block heights are strictly
   increasing and contiguous, starting at the status height + 1. *)
C6_AsStated == assertChainContinuity(PersistedHead, SortByHeight(hotBlocks))

(* C7 as stated: a transactHot whose baseHead (height together with hash) is
   no block of the chain [persisted head, hot blocks...] fails before any
   rollback or write, with the race error (or with the assertion of a check
   that precedes the search for baseHead). *)
C7_AsStated ==
    \A p \in Procs :
        (IsHot(p) /\ HasRead(p) /\ pc[p] # "start"
            /\ call[p].baseHead \notin Range(Chain(state[p])))
        => /\ Finished(p)
           /\ result[p] \in {RACE_MSG, "assert"}
           /\ CleanAttempt(p)

Contiguous(info) == assertChainContinuity(info.baseHead, info.newBlocks)

BaseIsTip(p) ==
    LET chain == Chain(state[p]) IN call[p].baseHead = chain[Len(chain)]

(* finalizedHead is a block of the chain the call builds *)
FinalizedInChain(p) ==
    call[p].finalizedHead \in Range(Chain(state[p]) \o call[p].newBlocks)

C8_FailsEarly ==
    \A p \in Procs :
        (IsHot(p) /\ HasRead(p) /\ pc[p] # "start" /\ ~Contiguous(call[p]))
        => /\ Finished(p)
           /\ result[p] # "ok"
           /\ CleanAttempt(p)

(* the call ran against a persisted chain that is contiguous, from a
   baseHead that is its tip, with contiguous newBlocks and writer callbacks
   that did not fail *)
TipCase(p) ==
    /\ IsHot(p) /\ Finished(p)
    /\ assertStateInvariants(state[p])
    /\ Contiguous(call[p]) /\ BaseIsTip(p)
    /\ result[p] \notin {"writer", "db"}

(* C8 as stated: a transactHot with non-contiguous newBlocks fails before any
   rollback, hot-block insert, writer call or status update, and one whose
   newBlocks are contiguous from a baseHead that is the chain tip succeeds
   (its writer callbacks not failing). *)
C8_AsStated ==
    /\ C8_FailsEarly
    /\ \A p \in Procs : TipCase(p) => result[p] = "ok"

(* C8, amended: the second half needs finalizedHead to be a block of the
   chain that results: a transactHot with non-contiguous newBlocks fails
   before any rollback, insert, writer call or status update; one whose
   newBlocks are contiguous from the chain tip and whose finalizedHead is a
   block of the resulting chain succeeds when its writer callbacks do. *)
C8_Continuity ==
    /\ C8_FailsEarly
    /\ \A p \in Procs : (TipCase(p) /\ FinalizedInChain(p)) => result[p] = "ok"

(* two new blocks on the tip of a chain that has a hot block, committed *)
C8_Witness ==
    \E p \in Procs :
        /\ TipCase(p)
        /\ Len(call[p].newBlocks) = 2
        /\ state[p].top # <<>>
        /\ FinalizedInChain(p)
        /\ result[p] = "ok"

(* C9 as stated: no call that passes its checks rolls back a height at or
   below the persisted finalized height. *)
C9_AsStated ==
    \A p \in Procs :
        \A k \in DOMAIN hist[p].rollbacks : hist[p].rollbacks[k] > state[p].height

(* C10 as stated: in a successful transact / transactHot the Store's change
   tracker is empty before the status row is advanced, and no pending write
   is dropped when the writer callback returns. *)
C10_AsStated ==
    \A p \in Procs :
        /\ pc[p] \in {"status", "commit"} => Pending(p) = {}
        /\ (Finished(p) /\ result[p] = "ok") =>
              /\ ~hist[p].dropped
              /\ \A i \in Ids :
                    /\ hist[p].expect[i] = "present" => i \in dbRows
                    /\ hist[p].expect[i] = "absent" => i \notin dbRows

====
